---- MODULE Spec2Model ----
(***************************************************************************)
(* Job lifecycle and reconciliation of bin/tm-api-server.py: the proc-*    *)
(* state files, the exit-<host>.code markers, the backup logs, the child   *)
(* processes, the per-job supervisor threads, the list and kill request    *)
(* handlers and the startup reconciler; the restores with their records,   *)
(* logs and list; the requests that clear and delete records; the deletion *)
(* of backup data in the background; downloads; archive and unarchive.     *)
(*                                                                         *)
(* Granularity.  Every read and every write of a file is one step; a      *)
(* handler that reads a record and writes it back later is two or more     *)
(* steps, so that other threads run in between.  A write of a state file   *)
(* (open 'w' + write) is taken as one step.  Process ids are never reused. *)
(***************************************************************************)
EXTENDS Integers, Sequences, FiniteSets, TLC

\* ---------------------------------------------------------------- bounds
RaceLaunches == 1  \* launch requests in SpecRace (launch against list and kill)
PairLaunches == 2  \* launch requests in SpecLaunch (concurrent launches)
BootLaunches == 1  \* launch requests in SpecBoot (restart and reconciliation)
KillLaunches == 2  \* launch requests in SpecKill (kill among several records)
OrderFiles == 3    \* state files in SpecOrder (the output of list)
ProbeProcs == 2    \* processes in the table of SpecProbe (the liveness probe)
MaxRestores == 2   \* restore requests in SpecRestore
MaxDeletes == 2    \* requests to delete the backup data of a host in SpecDelete
MaxDownloads == 2  \* download requests in SpecDownload
ConfLines == 2     \* lines of servers.conf at the start of SpecArchive
MaxExt == 2        \* timemachine.sh processes started outside the server
MaxTime == 1       \* the clock (seconds) runs over 0..MaxTime
MaxBoot == 1       \* restarts of the server after its first start

\* ------------------------------------------------------------ file names
\* Subjects.  "a-b" has "a-" as a prefix, as web-01 has web-.
Hosts == {"a", "a-b"}

\* The characters of a host name, as character codes ('-' is 45).
HostChars(h) == IF h = "a" THEN <<97>> ELSE <<97, 45, 98>>

\* A timestamp %Y-%m-%d_%H%M%S as one token: it starts with a digit, which
\* sorts after '-' and '.' and before the letters.
TsTok(ts) == 50 + ts

\* A key that leaves the host out, as proc-{ts}.state would.
JobKey_NoHost(h, ts) == [kind |-> "job", host |-> "a", ts |-> ts]

\* proc-{host}-{ts}.state, the key of a launched job (line 1061), and
\* proc-{host}.state, the key the reconciler uses (line 2065).
JobKey(h, ts) == [kind |-> "job", host |-> h, ts |-> ts]
OrphanKey(h) == [kind |-> "orphan", host |-> h, ts |-> 0]

\* The file name after "proc-", with ".state" as the token 46 ('.').
NameToks(k) ==
    IF k.kind = "job" THEN HostChars(k.host) \o <<45, TsTok(k.ts)>> \o <<46>>
    ELSE HostChars(k.host) \o <<46>>

IsPrefix(p, s) == Len(p) <= Len(s) /\ SubSeq(s, 1, Len(p)) = p

\* glob proc-{host}-*.state (line 1139)
KillGlob(h, k) == IsPrefix(HostChars(h) \o <<45>>, NameToks(k))

\* backup-{host}-{ts}.log (line 1051); NoLog is the empty logfile field.
LogName(h, ts) == [host |-> h, ts |-> ts]
NoLog == [host |-> "", ts |-> 0]
LogToks(l) == HostChars(l.host) \o <<45, TsTok(l.ts)>> \o <<46>>

\* Lexicographic order of two token sequences (Python's string order).
RECURSIVE SeqLess(_, _)
SeqLess(s, t) ==
    IF s = <<>> THEN t # <<>>
    ELSE IF t = <<>> THEN FALSE
    ELSE IF Head(s) # Head(t) THEN Head(s) < Head(t)
    ELSE SeqLess(Tail(s), Tail(t))

\* sorted(glob(...), reverse=True) (line 204)
RECURSIVE SortedDesc(_)
SortedDesc(S) ==
    IF S = {} THEN <<>>
    ELSE LET m == CHOOSE x \in S : \A y \in S \ {x} : SeqLess(NameToks(y), NameToks(x))
         IN <<m>> \o SortedDesc(S \ {m})

\* ---------------------------------------------------------------- state
VARIABLES
    now,      \* the clock, in seconds
    phase,    \* "boot": main() before serve_forever; "serving" afterwards
    boots,    \* restarts so far
    files,    \* state dir: key -> record, for the proc-*.state files that exist
    exitc,    \* state dir: host -> content of exit-{host}.code, where it exists
    logs,     \* log dir: log name -> [err, notice], for the logs that exist
    procs,    \* OS processes running timemachine.sh --trigger; the pid is the index
    sup,      \* one entry per launch: the request and its run_backup thread
    lst,      \* the request thread inside get_processes_json, or idle
    kil,      \* the request thread inside _api_backup_kill, or idle
    killedOK, \* keys of the records for which a kill has answered 'killed'
    probe,    \* the last call of is_process_alive on a pid text: [id, out], or idle
    rfiles,   \* state dir: key -> record, for the restore-*.state files that exist
    rlogs,    \* log dir: log name -> [tail, old], for the restore logs that exist
    rsup,     \* one entry per restore: the request, its run_restore thread, the child
    rlst,     \* the request thread inside _api_restores_list, or idle
    rclr,     \* the request thread inside _api_restores_clear, or idle
    rdel,     \* the request thread inside _api_restore_delete, or idle
    pclr,     \* the request thread inside _api_processes_clear, or idle
    pdel,     \* the request thread inside _api_process_delete, or idle
    dirs,     \* backup root: the hosts whose backup directory exists
    dstate,   \* state dir: host -> status field of delete-{host}.state, where it exists
    dtask,    \* one entry per call of delete_server_data_bg: the caller and its worker
    tmpf,     \* /tmp: format -> the paths archived in tm-download-{pid}.{format}, where it exists
    dl,       \* one entry per download request: the request thread
    sconf,    \* config/servers.conf: its lines
    aconf,    \* config/archived.conf: its lines
    cres      \* the last call of archive_server or unarchive_server: [op, host, found]

\* The restores.
rvars == <<rfiles, rlogs, rsup, rlst>>

\* The state that the backup handlers, the supervisors and the reconciler
\* leave alone.
\* The requests that clear and delete backup records.
pxvars == <<pclr, pdel>>

\* The deletion of backup data in the background.
dvars == <<dirs, dstate, dtask>>

zvars == <<dvars, tmpf, dl, sconf, aconf, cres>>

\* What the requests that clear and delete restores leave alone, next to the
\* backups and the restores.
rothers == <<pxvars, zvars>>

xvars == <<rclr, rdel, pxvars, zvars>>

aux == <<probe, rvars, xvars>>

vars == <<now, phase, boots, files, exitc, logs, procs, sup, lst, kil, killedOK, aux>>

Terminal == {"completed", "failed", "killed"}

\* pid|hostname|mode|started|status|logfile (line 1097)
Rec(pid, h, mode, started, status, logfile) ==
    [pid |-> pid, hostname |-> h, mode |-> mode, started |-> started,
     status |-> status, logfile |-> logfile]

\* A state file with fewer than 6 fields, such as an empty one.
Malformed == Rec(0, "", "", 0, "malformed", NoLog)

\* A parse that accepts every content.
WellFormed_Always(content) == TRUE

\* len(parts) >= 6 (line 208)
WellFormed(content) == content # Malformed

\* content.replace('|running|', f'|{status}|') (lines 231, 1156): a record
\* whose status is not running has no such token and is left as it is.
Replace(content, status) ==
    IF content.status = "running" THEN [content EXCEPT !.status = status]
    ELSE content

\* os.kill(pid, 0) succeeds: the process exists, running or not yet reaped.
is_process_alive(pid) ==
    /\ pid \in 1..Len(procs)
    /\ procs[pid].st \in {"run", "zombie"}

\* The two tests in the other order.
Mode_DbFirst(opts) ==
    IF "--db-only" \in opts THEN "db-only"
    ELSE IF "--files-only" \in opts THEN "files-only"
    ELSE "full"

\* mode from the options (lines 1054-1058, 2073-2077)
Mode(opts) ==
    IF "--files-only" \in opts THEN "files-only"
    ELSE IF "--db-only" \in opts THEN "db-only"
    ELSE "full"

\* query string -> options (lines 1044-1048)
Queries == SUBSET {"files-only", "db-only"}
Opts(query) ==
    (IF "files-only" \in query THEN {"--files-only"} ELSE {})
    \cup (IF "db-only" \in query THEN {"--db-only"} ELSE {})

\* str(exit_code) (line 1084)
Str(code) == IF code = 0 THEN "0" ELSE IF code = 1 THEN "1" ELSE "-15"

IdleList == [pc |-> "idle", todo |-> <<>>, content |-> Rec(0, "", "", 0, "", NoLog),
             status |-> "", result |-> <<>>]
IdleKill == [pc |-> "idle", host |-> "", todo |-> {}, key |-> OrphanKey(""),
             content |-> Rec(0, "", "", 0, "", NoLog), result |-> ""]

\* No call of is_process_alive has been made.
IdleProbe == [id |-> [num |-> FALSE, val |-> 0], out |-> "idle"]

\* pid|hostname|description|started|status|logfile of a restore (line 1224);
\* the pid is that of the server, one per start of the server.
RRec(server, h, started, status, logfile) ==
    [pid |-> server, hostname |-> h, started |-> started, status |-> status,
     logfile |-> logfile]

IdleRList == [pc |-> "idle", todo |-> {}, key |-> LogName("", 0),
              content |-> RRec(0, "", 0, "", NoLog), status |-> "", result |-> {}]

\* No request is inside _api_restores_clear.
IdleRClear == [pc |-> "idle", todo |-> {}, key |-> LogName("", 0), count |-> 0]

\* No request is inside _api_restore_delete.
IdleRDelete == [pc |-> "idle", key |-> LogName("", 0), logfile |-> NoLog, result |-> ""]

\* No request is inside _api_processes_clear.
IdlePClear == [pc |-> "idle", todo |-> {}, key |-> OrphanKey(""), host |-> "", count |-> 0]

\* No request is inside _api_process_delete.
IdlePDelete == [pc |-> "idle", host |-> "", todo |-> {}, key |-> OrphanKey(""),
                cleared |-> 0, result |-> ""]

InitAux ==
    /\ probe = IdleProbe
    /\ rfiles = <<>>
    /\ rlogs = <<>>
    /\ rsup = <<>>
    /\ rlst = IdleRList
    /\ rclr = IdleRClear
    /\ rdel = IdleRDelete
    /\ pclr = IdlePClear
    /\ pdel = IdlePDelete
    /\ dirs = {}
    /\ dstate = <<>>
    /\ dtask = <<>>
    /\ tmpf = <<>>
    /\ dl = <<>>
    /\ sconf = <<>>
    /\ aconf = <<>>
    /\ cres = [op |-> "", host |-> "", found |-> FALSE, line |-> <<>>]

Init ==
    /\ now = 0
    /\ phase = "boot"
    /\ boots = 0
    /\ files = <<>>
    /\ exitc = <<>>
    /\ logs = <<>>
    /\ procs = <<>>
    /\ sup = <<>>
    /\ lst = IdleList
    /\ kil = IdleKill
    /\ killedOK = {}
    /\ InitAux

\* ------------------------------------------------------- the environment
Tick ==
    /\ now < MaxTime
    /\ now' = now + 1
    /\ UNCHANGED <<phase, boots, files, exitc, logs, procs, sup, lst, kil, killedOK, aux>>

\* cron or an operator starts timemachine.sh {host} --trigger ... {flags}
ExternalStart ==
    \E h \in Hosts, flags \in SUBSET {"--files-only", "--db-only"} :
        /\ Cardinality({p \in 1..Len(procs) : procs[p].ext}) < MaxExt
        /\ procs' = Append(procs, [host |-> h, flags |-> flags, st |-> "run",
                                   sig |-> FALSE, code |-> 0, child |-> FALSE,
                                   ext |-> TRUE, log |-> NoLog])
        /\ UNCHANGED <<now, phase, boots, files, exitc, logs, sup, lst, kil, killedOK, aux>>

\* How a backup ends by itself: exit code, and whether it logged [ERROR].
ExitOutcomes == {<<0, FALSE>>, <<0, TRUE>>, <<1, FALSE>>, <<1, TRUE>>}

\* A backup process ends: by SIGTERM (-15) once signalled, by itself otherwise.
\* A child of the running server stays a zombie until proc.wait() reaps it.
ProcExit ==
    \E p \in 1..Len(procs) :
        /\ procs[p].st = "run"
        /\ \E o \in (IF procs[p].sig THEN {<<-15, FALSE>>} ELSE ExitOutcomes) :
            /\ procs' = [procs EXCEPT ![p].st = IF procs[p].child THEN "zombie" ELSE "gone",
                                      ![p].code = IF procs[p].child THEN o[1] ELSE 0]
            /\ logs' = IF o[2] /\ procs[p].log \in DOMAIN logs
                       THEN [logs EXCEPT ![procs[p].log].err = TRUE]
                       ELSE logs
        /\ UNCHANGED <<now, phase, boots, files, exitc, sup, lst, kil, killedOK, aux>>

\* ------------------------------------------------------------- launch
\* A launch handled whatever the server is doing, even before it serves.
Launch_AnyPhase(max) ==
    \E h \in Hosts, query \in Queries :
        /\ Len(sup) < max
        /\ files' = (JobKey(h, now) :> Rec(0, h, Mode(Opts(query)), now, "running", LogName(h, now)))
                    @@ files
        /\ sup' = Append(sup, [host |-> h, opts |-> Opts(query), mode |-> Mode(Opts(query)),
                               ts |-> now, pc |-> "spawn", pid |-> 0, code |-> 0,
                               resp |-> FALSE])
        /\ UNCHANGED <<now, phase, boots, exitc, logs, procs, lst, kil, killedOK, aux>>

\* _api_backup_start up to t.start(): the placeholder record is written.
Launch(max) ==
    \E h \in Hosts, query \in Queries :
        /\ phase = "serving"
        /\ Len(sup) < max
        /\ files' = (JobKey(h, now) :> Rec(0, h, Mode(Opts(query)), now, "running", LogName(h, now)))
                    @@ files
        /\ sup' = Append(sup, [host |-> h, opts |-> Opts(query), mode |-> Mode(Opts(query)),
                               ts |-> now, pc |-> "spawn", pid |-> 0, code |-> 0,
                               resp |-> FALSE])
        /\ UNCHANGED <<now, phase, boots, exitc, logs, procs, lst, kil, killedOK, aux>>

\* _send_json({'status': 'started'}) (line 1103)
LaunchRespond ==
    \E i \in 1..Len(sup) :
        /\ ~sup[i].resp
        /\ sup[i].pc # "dead"
        /\ sup' = [sup EXCEPT ![i].resp = TRUE]
        /\ UNCHANGED <<now, phase, boots, files, exitc, logs, procs, lst, kil, killedOK, aux>>

\* run_backup: open(logfile, 'w') and Popen (lines 1067-1072)
SupSpawn ==
    \E i \in 1..Len(sup) :
        /\ sup[i].pc = "spawn"
        /\ logs' = (LogName(sup[i].host, sup[i].ts) :> [err |-> FALSE, notice |-> FALSE]) @@ logs
        /\ procs' = Append(procs, [host |-> sup[i].host, flags |-> sup[i].opts, st |-> "run",
                                   sig |-> FALSE, code |-> 0, child |-> TRUE,
                                   ext |-> FALSE, log |-> LogName(sup[i].host, sup[i].ts)])
        /\ sup' = [sup EXCEPT ![i].pc = "writepid", ![i].pid = Len(procs) + 1]
        /\ UNCHANGED <<now, phase, boots, files, exitc, lst, kil, killedOK, aux>>

\* run_backup: open(logfile, 'w') or Popen raises (the log directory is
\* missing or not writable, fork fails); the exception is swallowed and the
\* thread ends (lines 1092-1093)
SupSpawnFail ==
    \E i \in 1..Len(sup), opened \in BOOLEAN :
        /\ sup[i].pc = "spawn"
        /\ logs' = IF opened
                   THEN (LogName(sup[i].host, sup[i].ts) :> [err |-> FALSE, notice |-> FALSE]) @@ logs
                   ELSE logs
        /\ sup' = [sup EXCEPT ![i].pc = "crashed"]
        /\ UNCHANGED <<now, phase, boots, files, exitc, procs, lst, kil, killedOK, aux>>

\* run_backup: the record with the real pid (lines 1075-1076)
SupWritePid ==
    \E i \in 1..Len(sup) :
        /\ sup[i].pc = "writepid"
        /\ files' = (JobKey(sup[i].host, sup[i].ts) :>
                        Rec(sup[i].pid, sup[i].host, sup[i].mode, sup[i].ts, "running",
                            LogName(sup[i].host, sup[i].ts))) @@ files
        /\ sup' = [sup EXCEPT ![i].pc = "wait"]
        /\ UNCHANGED <<now, phase, boots, exitc, logs, procs, lst, kil, killedOK, aux>>

\* run_backup: proc.wait() returns and reaps the child (line 1080)
SupWait ==
    \E i \in 1..Len(sup) :
        /\ sup[i].pc = "wait"
        /\ procs[sup[i].pid].st = "zombie"
        /\ procs' = [procs EXCEPT ![sup[i].pid].st = "gone", ![sup[i].pid].code = 0]
        /\ sup' = [sup EXCEPT ![i].pc = "opencode", ![i].code = procs[sup[i].pid].code]
        /\ UNCHANGED <<now, phase, boots, files, exitc, logs, lst, kil, killedOK, aux>>

\* run_backup: open(code_file, 'w') truncates the marker (line 1083)
SupOpenCode ==
    \E i \in 1..Len(sup) :
        /\ sup[i].pc = "opencode"
        /\ exitc' = (sup[i].host :> "") @@ exitc
        /\ sup' = [sup EXCEPT ![i].pc = "writecode"]
        /\ UNCHANGED <<now, phase, boots, files, logs, procs, lst, kil, killedOK, aux>>

\* run_backup: cf.write(str(exit_code)) (line 1084)
SupWriteCode ==
    \E i \in 1..Len(sup) :
        /\ sup[i].pc = "writecode"
        /\ exitc' = (sup[i].host :> Str(sup[i].code)) @@ exitc
        /\ sup' = [sup EXCEPT ![i].pc = "writestatus"]
        /\ UNCHANGED <<now, phase, boots, files, logs, procs, lst, kil, killedOK, aux>>

\* A status computed from the sign of the exit code only.
ExitStatus_NonNegative(code) == IF code >= 0 THEN "completed" ELSE "failed"

\* status = 'completed' if exit_code == 0 else 'failed' (line 1087)
ExitStatus(code) == IF code = 0 THEN "completed" ELSE "failed"

\* run_backup: the terminal record (lines 1088-1089)
SupWriteStatus ==
    \E i \in 1..Len(sup) :
        /\ sup[i].pc = "writestatus"
        /\ files' = (JobKey(sup[i].host, sup[i].ts) :>
                        Rec(sup[i].pid, sup[i].host, sup[i].mode, sup[i].ts,
                            ExitStatus(sup[i].code), LogName(sup[i].host, sup[i].ts))) @@ files
        /\ sup' = [sup EXCEPT ![i].pc = "done", ![i].code = 0]
        /\ UNCHANGED <<now, phase, boots, exitc, logs, procs, lst, kil, killedOK, aux>>

\* ------------------------------------------------------------------ list
\* An element that carries the status as it was read from the file.
View_ContentStatus(content, status) ==
    [pid |-> content.pid, hostname |-> content.hostname, mode |-> content.mode,
     started |-> content.started, status |-> content.status, logfile |-> content.logfile]

\* One element of the list get_processes_json returns (lines 234-241).
View(content, status) ==
    [pid |-> content.pid, hostname |-> content.hostname, mode |-> content.mode,
     started |-> content.started, status |-> status, logfile |-> content.logfile]

\* The exit code file says failed (lines 215-222).
ExitFailed(hostname) ==
    /\ hostname \in DOMAIN exitc
    /\ exitc[hostname] # ""
    /\ exitc[hostname] # "0"

\* The log has an [ERROR] marker (lines 224-230).
LogFailed(logfile) ==
    /\ logfile # NoLog
    /\ logfile \in DOMAIN logs
    /\ logs[logfile].err

\* The classification without the exit code file.
DeadStatus_NoMarker(hostname, logfile) ==
    IF LogFailed(logfile) THEN "failed" ELSE "completed"

\* The status of a running record whose process is gone (lines 213-230).
DeadStatus(hostname, logfile) ==
    IF ExitFailed(hostname) THEN "failed"
    ELSE IF LogFailed(logfile) THEN "failed"
    ELSE "completed"

\* The test of line 212 without the placeholder, and without the status.
Suspect_NoPidCheck(content) == content.status = "running"
Suspect_AnyStatus(content) == content.pid # 0

\* The record is looked at more closely (line 212, without the probe).
Suspect(content) == content.status = "running" /\ content.pid # 0

\* procs.sort(key=started) is stable: equal elements keep their order.
RECURSIVE InsertAsc(_, _)
InsertAsc(e, s) ==
    IF s = <<>> THEN <<e>>
    ELSE IF e.started < Head(s).started THEN <<e>> \o s
    ELSE <<Head(s)>> \o InsertAsc(e, Tail(s))

RECURSIVE SortAsc(_)
SortAsc(s) ==
    IF s = <<>> THEN <<>>
    ELSE InsertAsc(s[Len(s)], SortAsc(SubSeq(s, 1, Len(s) - 1)))

RECURSIVE InsertDesc(_, _)
InsertDesc(e, s) ==
    IF s = <<>> THEN <<e>>
    ELSE IF e.started > Head(s).started THEN <<e>> \o s
    ELSE <<Head(s)>> \o InsertDesc(e, Tail(s))

\* The finished records left in ascending order.
SortDesc_Forgotten(s) == s

RECURSIVE SortDesc(_)
SortDesc(s) ==
    IF s = <<>> THEN <<>>
    ELSE InsertDesc(s[Len(s)], SortDesc(SubSeq(s, 1, Len(s) - 1)))

RECURSIVE Filter(_, _)
Filter(s, running) ==
    IF s = <<>> THEN <<>>
    ELSE IF (Head(s).status = "running") = running
         THEN <<Head(s)>> \o Filter(Tail(s), running)
         ELSE Filter(Tail(s), running)

\* running first, then the finished ones, newest first (lines 244-250)
SortProcs(s) == SortAsc(Filter(s, TRUE)) \o SortDesc(SortAsc(Filter(s, FALSE)))

\* The loop goes on to the next file, or ends and the list is sorted.
ListNext(result) ==
    IF Len(lst.todo) > 1
    THEN [IdleList EXCEPT !.pc = "read", !.todo = Tail(lst.todo), !.result = result]
    ELSE [IdleList EXCEPT !.pc = "respond", !.result = SortProcs(result)]

\* get_processes_json: the glob (line 204)
ListStart ==
    /\ phase = "serving"
    /\ lst.pc = "idle"
    /\ lst' = IF files = <<>> THEN [IdleList EXCEPT !.pc = "respond"]
              ELSE [IdleList EXCEPT !.pc = "read", !.todo = SortedDesc(DOMAIN files)]
    /\ UNCHANGED <<now, phase, boots, files, exitc, logs, procs, sup, kil, killedOK, aux>>

\* get_processes_json: open(sf).read() and the parse (lines 206-212)
ListRead ==
    /\ lst.pc = "read"
    /\ LET k == Head(lst.todo) IN
        IF k \notin DOMAIN files \/ ~WellFormed(files[k]) THEN lst' = ListNext(lst.result)
        ELSE IF Suspect(files[k])
             THEN lst' = [lst EXCEPT !.pc = "probe", !.content = files[k]]
             ELSE lst' = ListNext(Append(lst.result, View(files[k], files[k].status)))
    /\ UNCHANGED <<now, phase, boots, files, exitc, logs, procs, sup, kil, killedOK, aux>>

\* get_processes_json: the probe, the exit code file and the log (lines 212-230)
ListProbe ==
    /\ lst.pc = "probe"
    /\ IF is_process_alive(lst.content.pid)
       THEN lst' = ListNext(Append(lst.result, View(lst.content, lst.content.status)))
       ELSE lst' = [lst EXCEPT !.pc = "write",
                               !.status = DeadStatus(lst.content.hostname, lst.content.logfile)]
    /\ UNCHANGED <<now, phase, boots, files, exitc, logs, procs, sup, kil, killedOK, aux>>

\* get_processes_json: the record is written back (lines 231-233)
ListWrite ==
    /\ lst.pc = "write"
    /\ files' = (Head(lst.todo) :> Replace(lst.content, lst.status)) @@ files
    /\ lst' = ListNext(Append(lst.result, View(lst.content, lst.status)))
    /\ UNCHANGED <<now, phase, boots, exitc, logs, procs, sup, kil, killedOK, aux>>

\* _api_processes: the list is sent (line 763)
ListRespond ==
    /\ lst.pc = "respond"
    /\ lst' = IdleList
    /\ UNCHANGED <<now, phase, boots, files, exitc, logs, procs, sup, kil, killedOK, aux>>

\* ------------------------------------------------------------------ kill
\* _api_backup_kill: the glob (line 1139)
KillStart ==
    \E h \in Hosts :
        /\ phase = "serving"
        /\ kil.pc = "idle"
        /\ kil' = [IdleKill EXCEPT !.pc = "scan", !.host = h,
                                   !.todo = {k \in DOMAIN files : KillGlob(h, k)}]
        /\ UNCHANGED <<now, phase, boots, files, exitc, logs, procs, sup, lst, killedOK, aux>>

\* A target chosen by the status alone, without the probe of the pid.
KillTarget_NoProbe(content) == content.status = "running"

\* The record is one kill acts on (lines 1143-1146).
KillTarget(content) ==
    /\ content.status = "running"
    /\ content.pid > 0
    /\ is_process_alive(content.pid)

\* _api_backup_kill: one file of the glob, in no particular order: read,
\* probe, notice in the log, SIGTERM (lines 1141-1155); or the 404 (line 1163)
KillScan ==
    /\ kil.pc = "scan"
    /\ IF kil.todo = {}
       THEN /\ kil' = [kil EXCEPT !.pc = "respond", !.result = "404"]
            /\ UNCHANGED <<logs, procs>>
       ELSE \E k \in kil.todo :
            IF k \in DOMAIN files /\ KillTarget(files[k])
            THEN /\ logs' = IF files[k].logfile # NoLog /\ files[k].logfile \in DOMAIN logs
                            THEN [logs EXCEPT ![files[k].logfile].notice = TRUE]
                            ELSE logs
                 /\ procs' = [procs EXCEPT ![files[k].pid].sig = TRUE]
                 /\ kil' = [kil EXCEPT !.pc = "write", !.todo = {}, !.key = k,
                                       !.content = files[k]]
            ELSE /\ kil' = [kil EXCEPT !.todo = kil.todo \ {k}]
                 /\ UNCHANGED <<logs, procs>>
    /\ UNCHANGED <<now, phase, boots, files, exitc, sup, lst, killedOK, aux>>

\* _api_backup_kill: the record is written back as killed (lines 1156-1158)
KillWrite ==
    /\ kil.pc = "write"
    /\ files' = (kil.key :> Replace(kil.content, "killed")) @@ files
    /\ kil' = [kil EXCEPT !.pc = "respond", !.result = "killed",
                          !.content = IdleKill.content]
    /\ UNCHANGED <<now, phase, boots, exitc, logs, procs, sup, lst, killedOK, aux>>

\* _api_backup_kill: the answer is sent (lines 1159, 1163)
KillRespond ==
    /\ kil.pc = "respond"
    /\ killedOK' = IF kil.result = "killed" THEN killedOK \cup {kil.key} ELSE killedOK
    /\ kil' = IdleKill
    /\ UNCHANGED <<now, phase, boots, files, exitc, logs, procs, sup, lst, aux>>

\* ------------------------------------------------------- failures/clear
\* _api_failures_clear: every log file whose text matches the error pattern
\* is removed, whatever the state of the job that writes it (lines 785-799).
\* Of the patterns, the model has the [ERROR] lines.
FailuresClear ==
    /\ phase = "serving"
    /\ \E l \in DOMAIN logs : logs[l].err
    /\ logs' = [l \in {x \in DOMAIN logs : ~logs[x].err} |-> logs[l]]
    /\ UNCHANGED <<now, phase, boots, files, exitc, procs, sup, lst, kil, killedOK, aux>>

\* --------------------------------------------------------------- restores
\* The backup state, which the restore handlers leave alone.
jvars == <<now, phase, boots, files, exitc, logs, procs, sup, lst, kil, killedOK, probe>>

\* The state that the restore requests and their threads leave alone.
bvars == <<jvars, xvars>>

\* restore-{host}-{ts}.state and restore-{host}-{ts}.log (lines 1190, 1200)
RestoreKey(h, ts) == LogName(h, ts)

\* is_process_alive on the pid of a server: the server of that start is the
\* one that runs (pids are not reused).
is_server_alive(server) == server = boots

\* _api_restore_start up to t.start() (lines 1165-1219): without a snapshot
\* the answer is 400 and nothing is started.
RestoreStart ==
    \E h \in Hosts, snapshot \in BOOLEAN :
        /\ phase = "serving"
        /\ Len(rsup) < MaxRestores
        /\ rsup' = IF snapshot
                   THEN Append(rsup, [host |-> h, ts |-> now, server |-> boots, req |-> "write",
                                      pc |-> "open", child |-> "none", code |-> 0,
                                      status |-> "", content |-> RRec(0, "", 0, "", NoLog)])
                   ELSE rsup
        /\ UNCHANGED <<bvars, rfiles, rlogs, rlst>>

\* _api_restore_start: the initial record, with the pid of the server, and
\* the answer (lines 1222-1233)
RestoreWrite ==
    \E i \in 1..Len(rsup) :
        /\ rsup[i].req = "write"
        /\ rfiles' = (RestoreKey(rsup[i].host, rsup[i].ts) :>
                        RRec(rsup[i].server, rsup[i].host, rsup[i].ts, "running",
                             RestoreKey(rsup[i].host, rsup[i].ts))) @@ rfiles
        /\ rsup' = [rsup EXCEPT ![i].req = "done"]
        /\ UNCHANGED <<bvars, rlogs, rlst>>

\* run_restore: open(logfile, 'w') and Popen (lines 1204-1206)
RSupSpawn ==
    \E i \in 1..Len(rsup) :
        /\ rsup[i].pc = "open"
        /\ rlogs' = (RestoreKey(rsup[i].host, rsup[i].ts) :> [tail |-> FALSE, old |-> FALSE])
                    @@ rlogs
        /\ rsup' = [rsup EXCEPT ![i].pc = "wait", ![i].child = "run"]
        /\ UNCHANGED <<bvars, rfiles, rlst>>

\* restore.sh ends, with an exit code; it may have logged [ERROR] within the
\* last 30 lines of its log, or earlier.  It is not in a session of its own
\* but outlives a server that is stopped by os._exit.
RChildExit ==
    \E i \in 1..Len(rsup), code \in {0, 1}, tail \in BOOLEAN, old \in BOOLEAN :
        /\ rsup[i].child = "run"
        /\ rsup' = [rsup EXCEPT ![i].child = "exited", ![i].code = code]
        /\ rlogs' = IF RestoreKey(rsup[i].host, rsup[i].ts) \in DOMAIN rlogs
                    THEN [rlogs EXCEPT ![RestoreKey(rsup[i].host, rsup[i].ts)] =
                                            [tail |-> tail, old |-> old]]
                    ELSE rlogs
        /\ UNCHANGED <<bvars, rfiles, rlst>>

\* run_restore: proc.wait() returns, status from the exit code (lines 1207-1208)
RSupWait ==
    \E i \in 1..Len(rsup) :
        /\ rsup[i].pc = "wait"
        /\ rsup[i].child = "exited"
        /\ rsup' = [rsup EXCEPT ![i].pc = "read", ![i].status = ExitStatus(rsup[i].code)]
        /\ UNCHANGED <<bvars, rfiles, rlogs, rlst>>

\* run_restore: open(state_file).read(); a missing file raises and the
\* exception is swallowed (lines 1209-1215)
RSupRead ==
    \E i \in 1..Len(rsup) :
        /\ rsup[i].pc = "read"
        /\ rsup' = IF RestoreKey(rsup[i].host, rsup[i].ts) \in DOMAIN rfiles
                   THEN [rsup EXCEPT ![i].pc = "write",
                                     ![i].content = rfiles[RestoreKey(rsup[i].host, rsup[i].ts)]]
                   ELSE [rsup EXCEPT ![i].pc = "done"]
        /\ UNCHANGED <<bvars, rfiles, rlogs, rlst>>

\* run_restore: the record with |running| replaced (lines 1211-1213)
RSupWrite ==
    \E i \in 1..Len(rsup) :
        /\ rsup[i].pc = "write"
        /\ rfiles' = (RestoreKey(rsup[i].host, rsup[i].ts) :>
                        Replace(rsup[i].content, rsup[i].status)) @@ rfiles
        /\ rsup' = [rsup EXCEPT ![i].pc = "done", ![i].content = RRec(0, "", 0, "", NoLog)]
        /\ UNCHANGED <<bvars, rlogs, rlst>>

\* The whole log searched for [ERROR], not its tail.
RDeadStatus_WholeLog(logfile) ==
    IF logfile \in DOMAIN rlogs /\ (rlogs[logfile].tail \/ rlogs[logfile].old)
    THEN "failed" ELSE "completed"

\* _api_restores_list: the status of a running record whose pid is gone, from
\* the last 30 lines of the log (lines 1262-1270)
RDeadStatus(logfile) ==
    IF logfile \in DOMAIN rlogs /\ rlogs[logfile].tail THEN "failed" ELSE "completed"

\* _api_restores_list: the glob (lines 1240-1241); the order is by mtime.
RListStart ==
    /\ phase = "serving"
    /\ rlst.pc = "idle"
    /\ rlst' = [IdleRList EXCEPT !.pc = "read", !.todo = DOMAIN rfiles]
    /\ UNCHANGED <<bvars, rfiles, rlogs, rsup>>

\* _api_restores_list: one file is read (lines 1244-1261), or the loop ends.
RListRead ==
    /\ rlst.pc = "read"
    /\ IF rlst.todo = {}
       THEN rlst' = [rlst EXCEPT !.pc = "respond"]
       ELSE \E k \in rlst.todo :
            IF k \notin DOMAIN rfiles
            THEN rlst' = [rlst EXCEPT !.todo = rlst.todo \ {k}]
            ELSE IF rfiles[k].status = "running"
                 THEN rlst' = [rlst EXCEPT !.pc = "probe", !.todo = rlst.todo \ {k},
                                           !.key = k, !.content = rfiles[k]]
                 ELSE rlst' = [rlst EXCEPT !.todo = rlst.todo \ {k},
                                           !.result = rlst.result \cup {<<k, rfiles[k]>>}]
    /\ UNCHANGED <<bvars, rfiles, rlogs, rsup>>

\* _api_restores_list: the probe and the log (lines 1261-1270)
RListProbe ==
    /\ rlst.pc = "probe"
    /\ IF is_server_alive(rlst.content.pid)
       THEN rlst' = [rlst EXCEPT !.pc = "read", !.content = IdleRList.content,
                                 !.result = rlst.result \cup {<<rlst.key, rlst.content>>}]
       ELSE rlst' = [rlst EXCEPT !.pc = "write",
                                 !.status = RDeadStatus(rlst.content.logfile)]
    /\ UNCHANGED <<bvars, rfiles, rlogs, rsup>>

\* _api_restores_list: the record is written back (lines 1271-1273)
RListWrite ==
    /\ rlst.pc = "write"
    /\ rfiles' = (rlst.key :> Replace(rlst.content, rlst.status)) @@ rfiles
    /\ rlst' = [rlst EXCEPT !.pc = "read", !.content = IdleRList.content, !.status = "",
                            !.result = rlst.result
                                       \cup {<<rlst.key, Replace(rlst.content, rlst.status)>>}]
    /\ UNCHANGED <<bvars, rlogs, rsup>>

\* _api_restores_list: the list is sent (line 1287)
RListRespond ==
    /\ rlst.pc = "respond"
    /\ rlst' = IdleRList
    /\ UNCHANGED <<bvars, rfiles, rlogs, rsup>>

\* ------------------------------------------ restores: clear and delete
\* The names restore-{host}-{ts}.state that a request can ask for.
RestoreKeys == {RestoreKey(h, t) : h \in Hosts, t \in 0..MaxTime}

\* The test of both handlers on a record (lines 1299, 1319)
RBusy(content) == content.status = "running" /\ is_server_alive(content.pid)

\* The file and nothing else is removed from a directory.
Without(dir, k) == [x \in DOMAIN dir \ {k} |-> dir[x]]

\* _api_restores_clear: the glob (line 1292)
RClearStart ==
    /\ phase = "serving"
    /\ rclr.pc = "idle"
    /\ rclr' = [IdleRClear EXCEPT !.pc = "read", !.todo = DOMAIN rfiles]
    /\ UNCHANGED <<jvars, rvars, rdel, rothers>>

\* _api_restores_clear: one file is read and tested (lines 1294-1300); a
\* file that is gone raises, and the loop goes on (lines 1303-1304).
RClearRead ==
    /\ rclr.pc = "read"
    /\ IF rclr.todo = {}
       THEN rclr' = [rclr EXCEPT !.pc = "respond"]
       ELSE \E k \in rclr.todo :
            IF k \in DOMAIN rfiles /\ ~RBusy(rfiles[k])
            THEN rclr' = [rclr EXCEPT !.pc = "unlink", !.todo = rclr.todo \ {k}, !.key = k]
            ELSE rclr' = [rclr EXCEPT !.todo = rclr.todo \ {k}]
    /\ UNCHANGED <<jvars, rvars, rdel, rothers>>

\* _api_restores_clear: os.unlink(sf) and the count (lines 1301-1304)
RClearUnlink ==
    /\ rclr.pc = "unlink"
    /\ rfiles' = Without(rfiles, rclr.key)
    /\ rclr' = [rclr EXCEPT !.pc = "read", !.key = IdleRClear.key,
                            !.count = IF rclr.key \in DOMAIN rfiles
                                      THEN rclr.count + 1 ELSE rclr.count]
    /\ UNCHANGED <<jvars, rlogs, rsup, rlst, rdel, rothers>>

\* _api_restores_clear: the answer (line 1305)
RClearRespond ==
    /\ rclr.pc = "respond"
    /\ rclr' = IdleRClear
    /\ UNCHANGED <<jvars, rvars, rdel, rothers>>

\* _api_restore_delete: the glob and the search for the name (lines
\* 1309-1311, 1329)
RDeleteStart ==
    \E k \in RestoreKeys :
        /\ phase = "serving"
        /\ rdel.pc = "idle"
        /\ rdel' = IF k \in DOMAIN rfiles
                   THEN [IdleRDelete EXCEPT !.pc = "read", !.key = k]
                   ELSE [IdleRDelete EXCEPT !.pc = "respond", !.key = k, !.result = "404"]
        /\ UNCHANGED <<jvars, rvars, rclr, rothers>>

\* _api_restore_delete: the file is read and tested (lines 1313-1322)
RDeleteRead ==
    /\ rdel.pc = "read"
    /\ rdel' = IF rdel.key \notin DOMAIN rfiles
               THEN [rdel EXCEPT !.pc = "respond", !.result = "500"]
               ELSE IF RBusy(rfiles[rdel.key])
                    THEN [rdel EXCEPT !.pc = "respond", !.result = "409"]
                    ELSE [rdel EXCEPT !.pc = "unlink", !.logfile = rfiles[rdel.key].logfile]
    /\ UNCHANGED <<jvars, rvars, rclr, rothers>>

\* _api_restore_delete: os.unlink(sf) (lines 1322, 1327-1328)
RDeleteUnlink ==
    /\ rdel.pc = "unlink"
    /\ rfiles' = Without(rfiles, rdel.key)
    /\ rdel' = IF rdel.key \in DOMAIN rfiles
               THEN [rdel EXCEPT !.pc = "unlog"]
               ELSE [rdel EXCEPT !.pc = "respond", !.result = "500"]
    /\ UNCHANGED <<jvars, rlogs, rsup, rlst, rclr, rothers>>

\* _api_restore_delete: the log is removed where it exists (lines 1324-1326)
RDeleteUnlog ==
    /\ rdel.pc = "unlog"
    /\ rlogs' = Without(rlogs, rdel.logfile)
    /\ rdel' = [rdel EXCEPT !.pc = "respond", !.result = "deleted"]
    /\ UNCHANGED <<jvars, rfiles, rsup, rlst, rclr, rothers>>

\* _api_restore_delete: the answer is sent
RDeleteRespond ==
    /\ rdel.pc = "respond"
    /\ rdel' = IdleRDelete
    /\ UNCHANGED <<jvars, rvars, rclr, rothers>>

\* ------------------------------------- backup records: clear and delete
\* What these requests leave alone: the backups but for the state files and
\* the markers, and the restores.
kvars == <<now, phase, boots, logs, procs, sup, lst, kil, killedOK, probe>>
pothers == <<rvars, rclr, rdel, zvars>>

\* The test of both handlers on a record (lines 773, 827)
Finished(content) == WellFormed(content) /\ content.status \in {"completed", "failed"}

\* glob proc-{hostname}*.state (line 823)
DeleteGlob(h, k) == IsPrefix(HostChars(h), NameToks(k))

\* _api_processes_clear: the glob (line 769)
PClearStart ==
    /\ phase = "serving"
    /\ pclr.pc = "idle"
    /\ pclr' = [IdlePClear EXCEPT !.pc = "read", !.todo = DOMAIN files]
    /\ UNCHANGED <<kvars, files, exitc, pdel, pothers>>

\* _api_processes_clear: one file is read and tested (lines 771-773); a file
\* that is gone raises, and the loop goes on (lines 781-782).
PClearRead ==
    /\ pclr.pc = "read"
    /\ IF pclr.todo = {}
       THEN pclr' = [pclr EXCEPT !.pc = "respond"]
       ELSE \E k \in pclr.todo :
            IF k \in DOMAIN files /\ Finished(files[k])
            THEN pclr' = [pclr EXCEPT !.pc = "remove", !.todo = pclr.todo \ {k}, !.key = k,
                                     !.host = files[k].hostname]
            ELSE pclr' = [pclr EXCEPT !.todo = pclr.todo \ {k}]
    /\ UNCHANGED <<kvars, files, exitc, pdel, pothers>>

\* _api_processes_clear: os.remove(sf) (lines 774, 781-782)
PClearRemove ==
    /\ pclr.pc = "remove"
    /\ files' = Without(files, pclr.key)
    /\ pclr' = IF pclr.key \in DOMAIN files
               THEN [pclr EXCEPT !.pc = "unmark"]
               ELSE [pclr EXCEPT !.pc = "read", !.key = IdlePClear.key, !.host = ""]
    /\ UNCHANGED <<kvars, exitc, pdel, pothers>>

\* _api_processes_clear: the marker of the record's host is removed where it
\* exists, and the record is counted (lines 776-780)
PClearUnmark ==
    /\ pclr.pc = "unmark"
    /\ exitc' = Without(exitc, pclr.host)
    /\ pclr' = [pclr EXCEPT !.pc = "read", !.key = IdlePClear.key, !.host = "",
                            !.count = pclr.count + 1]
    /\ UNCHANGED <<kvars, files, pdel, pothers>>

\* _api_processes_clear: the answer (line 783)
PClearRespond ==
    /\ pclr.pc = "respond"
    /\ pclr' = IdlePClear
    /\ UNCHANGED <<kvars, files, exitc, pdel, pothers>>

\* _api_process_delete: the glob (line 823)
PDeleteStart ==
    \E h \in Hosts :
        /\ phase = "serving"
        /\ pdel.pc = "idle"
        /\ pdel' = [IdlePDelete EXCEPT !.pc = "read", !.host = h,
                                       !.todo = {k \in DOMAIN files : DeleteGlob(h, k)}]
        /\ UNCHANGED <<kvars, files, exitc, pclr, pothers>>

\* _api_process_delete: one file is read and tested (lines 825-827, 830-831)
PDeleteRead ==
    /\ pdel.pc = "read"
    /\ IF pdel.todo = {}
       THEN pdel' = [pdel EXCEPT !.pc = "unmark"]
       ELSE \E k \in pdel.todo :
            IF k \in DOMAIN files /\ Finished(files[k])
            THEN pdel' = [pdel EXCEPT !.pc = "remove", !.todo = pdel.todo \ {k}, !.key = k]
            ELSE pdel' = [pdel EXCEPT !.todo = pdel.todo \ {k}]
    /\ UNCHANGED <<kvars, files, exitc, pclr, pothers>>

\* _api_process_delete: os.remove(sf) and the count (lines 828-831)
PDeleteRemove ==
    /\ pdel.pc = "remove"
    /\ files' = Without(files, pdel.key)
    /\ pdel' = [pdel EXCEPT !.pc = "read", !.key = IdlePDelete.key,
                            !.cleared = IF pdel.key \in DOMAIN files
                                        THEN pdel.cleared + 1 ELSE pdel.cleared]
    /\ UNCHANGED <<kvars, exitc, pclr, pothers>>

\* _api_process_delete: the marker of the host is removed where it exists,
\* and the answer is chosen (lines 832-839)
PDeleteUnmark ==
    /\ pdel.pc = "unmark"
    /\ exitc' = Without(exitc, pdel.host)
    /\ pdel' = [pdel EXCEPT !.pc = "respond",
                            !.result = IF pdel.cleared > 0 THEN "cleared" ELSE "404"]
    /\ UNCHANGED <<kvars, files, pclr, pothers>>

\* _api_process_delete: the answer is sent (lines 836-839)
PDeleteRespond ==
    /\ pdel.pc = "respond"
    /\ pdel' = IdlePDelete
    /\ UNCHANGED <<kvars, files, exitc, pclr, pothers>>

\* ----------------------------------------- deletion of the backup data
\* What the deletion of backup data leaves alone.
dframe == <<jvars, rvars, rclr, rdel, pxvars, tmpf, dl, sconf, aconf, cres>>

\* A backup of the host creates its directory under the backup root.
MakeDir ==
    \E h \in Hosts :
        /\ h \notin dirs
        /\ dirs' = dirs \cup {h}
        /\ UNCHANGED <<dframe, dstate, dtask>>

\* delete_server_data_bg: os.path.isdir(snap_dir) (lines 403-407); without
\* the directory the call returns.
DeleteRequest ==
    \E h \in Hosts :
        /\ phase = "serving"
        /\ Len(dtask) < MaxDeletes
        /\ dtask' = Append(dtask, [host |-> h, pc |-> IF h \in dirs THEN "write" ELSE "done",
                                   isdir |-> h \in dirs, out |-> ""])
        /\ UNCHANGED <<dframe, dirs, dstate>>

\* delete_server_data_bg: running is written (lines 409-410)
DeleteWrite ==
    \E i \in 1..Len(dtask) :
        /\ dtask[i].pc = "write"
        /\ dstate' = (dtask[i].host :> "running") @@ dstate
        /\ dtask' = [dtask EXCEPT ![i].pc = "start"]
        /\ UNCHANGED <<dframe, dirs>>

\* delete_server_data_bg: t.start() (lines 428-429)
DeleteSpawn ==
    \E i \in 1..Len(dtask) :
        /\ dtask[i].pc = "start"
        /\ dtask' = [dtask EXCEPT ![i].pc = "rm"]
        /\ UNCHANGED <<dframe, dirs, dstate>>

\* _do_delete: sudo rm -rf returns 0 with the directory removed, returns
\* another code with the directory left, or subprocess.run raises, as on a
\* timeout (lines 415-417, 425)
DeleteRm ==
    \E i \in 1..Len(dtask), out \in {"zero", "nonzero", "raise"} :
        /\ dtask[i].pc = "rm"
        /\ dirs' = IF out = "zero" THEN dirs \ {dtask[i].host} ELSE dirs
        /\ dtask' = [dtask EXCEPT ![i].pc = "finish", ![i].out = out]
        /\ UNCHANGED <<dframe, dstate>>

\* A worker that reports a failure of rm as completed whatever is left.
RmStatus_Completed(out, exists) ==
    IF out = "raise" THEN "failed" ELSE "completed"

\* _do_delete: the status written (lines 418-427)
RmStatus(out, exists) ==
    IF out = "raise" THEN "failed"
    ELSE IF out = "zero" \/ ~exists THEN "completed"
    ELSE "failed"

\* _do_delete: the final state is written (lines 418-427)
DeleteFinish ==
    \E i \in 1..Len(dtask) :
        /\ dtask[i].pc = "finish"
        /\ dstate' = (dtask[i].host :> RmStatus(dtask[i].out, dtask[i].host \in dirs)) @@ dstate
        /\ dtask' = [dtask EXCEPT ![i].pc = "done"]
        /\ UNCHANGED <<dframe, dirs>>

\* ------------------------------------------------------------ downloads
\* The paths under the backup root that a request asks for; the last does
\* not exist.
DlPaths == {"p", "q", "missing"}

\* _api_download: the path is tested (lines 1001-1015); a path that does not
\* exist is answered with 404.
DlRequest ==
    \E path \in DlPaths, fmt \in {"zip", "tar.gz"} :
        /\ phase = "serving"
        /\ Len(dl) < MaxDownloads
        /\ dl' = Append(dl, [path |-> path, fmt |-> fmt, sent |-> {},
                             pc |-> IF path = "missing" THEN "done" ELSE "build",
                             code |-> IF path = "missing" THEN 404 ELSE 0])
        /\ UNCHANGED <<jvars, rvars, rclr, rdel, pxvars, dvars, tmpf, sconf, aconf, cres>>

\* _api_download: the archive is built in /tmp/tm-download-{os.getpid()}.{format}
\* (lines 1020-1033): tar -czf writes the file anew, zip -r adds to a file
\* that exists.
DlBuild ==
    \E i \in 1..Len(dl) :
        /\ dl[i].pc = "build"
        /\ tmpf' = (dl[i].fmt :> (IF dl[i].fmt = "zip" /\ "zip" \in DOMAIN tmpf
                                  THEN tmpf["zip"] \cup {dl[i].path}
                                  ELSE {dl[i].path})) @@ tmpf
        /\ dl' = [dl EXCEPT ![i].pc = "send"]
        /\ UNCHANGED <<jvars, rvars, rclr, rdel, pxvars, dvars, sconf, aconf, cres>>

\* _send_download: the file is read and sent; a file that is gone is
\* answered with 500 (lines 547-560)
DlSend ==
    \E i \in 1..Len(dl) :
        /\ dl[i].pc = "send"
        /\ dl' = IF dl[i].fmt \in DOMAIN tmpf
                 THEN [dl EXCEPT ![i].pc = "unlink", ![i].sent = tmpf[dl[i].fmt],
                                 ![i].code = 200]
                 ELSE [dl EXCEPT ![i].pc = "unlink", ![i].code = 500]
        /\ UNCHANGED <<jvars, rvars, rclr, rdel, pxvars, dvars, tmpf, sconf, aconf, cres>>

\* _api_download: the file is removed where it exists (lines 1036-1038)
DlUnlink ==
    \E i \in 1..Len(dl) :
        /\ dl[i].pc = "unlink"
        /\ tmpf' = Without(tmpf, dl[i].fmt)
        /\ dl' = [dl EXCEPT ![i].pc = "done"]
        /\ UNCHANGED <<jvars, rvars, rclr, rdel, pxvars, dvars, sconf, aconf, cres>>

\* ------------------------------------------------- archive and unarchive
\* A line of a configuration file is [lead, body, nl]: whether it starts with
\* white space, its text without the white space around it, as character
\* codes (' ' is 32, '#' is 35), and whether it ends with a newline, which
\* only the last line of a file may lack.

\* stripped.split()[0] (lines 362, 387)
FirstWord(body) ==
    LET n == CHOOSE i \in 0..Len(body) :
                /\ \A j \in 1..i : body[j] # 32
                /\ (i = Len(body) \/ body[i + 1] = 32)
    IN  SubSeq(body, 1, n)

\* The test on a line (lines 362, 387)
ConfMatch(line, h) ==
    /\ line.body # <<>>
    /\ Head(line.body) # 35
    /\ FirstWord(line.body) = HostChars(h)

\* open(path, 'a') and write(text + '\n') (lines 370-372, 395-397): the text
\* goes after the last character of the file.
Glue(file, text) ==
    IF file # <<>> /\ ~file[Len(file)].nl
    THEN [file EXCEPT ![Len(file)] = [lead |-> file[Len(file)].lead,
                                      body |-> file[Len(file)].body \o text, nl |-> TRUE]]
    ELSE Append(file, [lead |-> FALSE, body |-> text, nl |-> TRUE])

\* archive_server, and unarchive_server with the files exchanged: the lines
\* of the host leave the source file, and the last of them, stripped, is
\* appended to the other file (lines 356-373, 381-398)
MoveLine(src, dst, h) ==
    LET hits == {i \in 1..Len(src) : ConfMatch(src[i], h)}
        last == CHOOSE i \in hits : \A j \in hits : j <= i
        Keep(line) == ~ConfMatch(line, h)
    IN  IF hits = {}
        THEN [found |-> FALSE, line |-> <<>>, src |-> src, dst |-> dst]
        ELSE [found |-> TRUE, line |-> src[last].body, src |-> SelectSeq(src, Keep),
              dst |-> Glue(dst, src[last].body)]

\* _api_servers_archive (lines 1498-1503)
Archive ==
    \E h \in Hosts :
        /\ phase = "serving"
        /\ sconf' = MoveLine(sconf, aconf, h).src
        /\ aconf' = MoveLine(sconf, aconf, h).dst
        /\ cres' = [op |-> "archive", host |-> h, found |-> MoveLine(sconf, aconf, h).found,
                    line |-> MoveLine(sconf, aconf, h).line]
        /\ UNCHANGED <<jvars, rvars, rclr, rdel, pxvars, dvars, tmpf, dl>>

\* _api_archived_unarchive (lines 1534-1539)
Unarchive ==
    \E h \in Hosts :
        /\ phase = "serving"
        /\ aconf' = MoveLine(aconf, sconf, h).src
        /\ sconf' = MoveLine(aconf, sconf, h).dst
        /\ cres' = [op |-> "unarchive", host |-> h, found |-> MoveLine(aconf, sconf, h).found,
                    line |-> MoveLine(aconf, sconf, h).line]
        /\ UNCHANGED <<jvars, rvars, rclr, rdel, pxvars, dvars, tmpf, dl>>

\* ------------------------------------------------- restart and reconciler
\* SIGTERM: os._exit(0) ends every thread of the server; the backups run in
\* their own sessions and go on (lines 1071, 2129-2131).  The server is
\* started again and is in main() before the reconciler.
Restart ==
    /\ phase = "serving"
    /\ boots < MaxBoot
    /\ boots' = boots + 1
    /\ phase' = "boot"
    /\ sup' = [i \in 1..Len(sup) |-> [sup[i] EXCEPT !.pc = "dead", !.code = 0, !.resp = TRUE]]
    /\ procs' = [p \in 1..Len(procs) |->
                    [procs[p] EXCEPT !.st = IF procs[p].st = "zombie" THEN "gone" ELSE procs[p].st,
                                     !.code = 0, !.child = FALSE]]
    /\ lst' = IdleList
    /\ kil' = IdleKill
    /\ rsup' = [i \in 1..Len(rsup) |-> [rsup[i] EXCEPT !.pc = "dead", !.req = "dead"]]
    /\ rlst' = IdleRList
    /\ rclr' = IdleRClear
    /\ rdel' = IdleRDelete
    /\ pclr' = IdlePClear
    /\ pdel' = IdlePDelete
    /\ dtask' = [i \in 1..Len(dtask) |->
                    [dtask[i] EXCEPT !.pc = IF dtask[i].pc = "done" THEN "done" ELSE "dead"]]
    /\ dl' = [i \in 1..Len(dl) |->
                    [dl[i] EXCEPT !.pc = IF dl[i].pc = "done" THEN "done" ELSE "dead"]]
    /\ tmpf' = <<>>
    /\ UNCHANGED <<now, files, exitc, logs, killedOK, probe, rfiles, rlogs, dirs, dstate,
                   sconf, aconf, cres>>

\* Pass 1 on one record (lines 2020-2038)
Pass1Dead(content) == content.status = "running" /\ ~is_process_alive(content.pid)

Pass1Files == [k \in DOMAIN files |->
                  IF Pass1Dead(files[k]) THEN [files[k] EXCEPT !.status = "failed"]
                  ELSE files[k]]

\* Pass 1: the markers made up for the dead records (lines 2039-2042)
Pass1Exitc ==
    [h \in DOMAIN exitc \cup {files[k].hostname : k \in {x \in DOMAIN files : Pass1Dead(files[x])}}
        |-> IF h \in DOMAIN exitc THEN exitc[h] ELSE "137"]

\* ps -eo pid,args: the lines with timemachine.sh and --trigger whose first
\* argument is the host (lines 2048-2063)
PsLines(h) == {p \in 1..Len(procs) : procs[p].st = "run" /\ procs[p].host = h}

\* Pass 2 skips the host: its proc-{host}.state says running (lines 2065-2072)
OrphanSkip(f, h) == OrphanKey(h) \in DOMAIN f /\ f[OrphanKey(h)].status = "running"

\* sorted(glob(backup-{host}-*.log), reverse=True)[0], or '' (lines 2079-2085)
LatestLog(h) ==
    LET S == {l \in DOMAIN logs : IsPrefix(HostChars(h) \o <<45>>, LogToks(l))}
    IN IF S = {} THEN NoLog
       ELSE CHOOSE l \in S : \A m \in S \ {l} : SeqLess(LogToks(m), LogToks(l))

\* _reconcile_state_files, called by main() before the server is created
\* (lines 2011-2091, 2122).  Of several processes of one host the first line
\* of ps wins; the order of ps is not known.
Reconcile ==
    /\ phase = "boot"
    /\ phase' = "serving"
    /\ exitc' = Pass1Exitc
    /\ LET need == {h \in Hosts : PsLines(h) # {} /\ ~OrphanSkip(Pass1Files, h)}
       IN \E first \in [need -> 1..Len(procs)] :
            /\ \A h \in need : first[h] \in PsLines(h)
            /\ files' = [k \in DOMAIN files \cup {OrphanKey(h) : h \in need} |->
                            IF \E h \in need : k = OrphanKey(h)
                            THEN Rec(first[k.host], k.host, Mode(procs[first[k.host]].flags),
                                     now, "running", LatestLog(k.host))
                            ELSE Pass1Files[k]]
    /\ UNCHANGED <<now, boots, logs, procs, sup, lst, kil, killedOK, aux>>

\* ------------------------------------------------------- specifications
\* One launch against the list and kill handlers of a running server.
NextRace ==
    \/ Reconcile
    \/ ProcExit
    \/ Launch(RaceLaunches)
    \/ LaunchRespond
    \/ SupSpawn
    \/ SupSpawnFail
    \/ SupWritePid
    \/ SupWait
    \/ SupOpenCode
    \/ SupWriteCode
    \/ SupWriteStatus
    \/ ListStart
    \/ ListRead
    \/ ListProbe
    \/ ListWrite
    \/ ListRespond
    \/ KillStart
    \/ KillScan
    \/ KillWrite
    \/ KillRespond

SpecRace == Init /\ [][NextRace]_vars

\* Concurrent launches and their supervisors.
NextLaunch ==
    \/ Reconcile
    \/ Tick
    \/ ProcExit
    \/ Launch(PairLaunches)
    \/ LaunchRespond
    \/ SupSpawn
    \/ SupSpawnFail
    \/ SupWritePid
    \/ SupWait
    \/ SupOpenCode
    \/ SupWriteCode
    \/ SupWriteStatus

SpecLaunch == Init /\ [][NextLaunch]_vars

\* Jobs that outlive the server: restart and reconciliation.
NextBoot ==
    \/ Reconcile
    \/ Restart
    \/ ExternalStart
    \/ ProcExit
    \/ Launch(BootLaunches)
    \/ SupSpawn
    \/ SupSpawnFail
    \/ SupWritePid
    \/ SupWait
    \/ SupOpenCode
    \/ SupWriteCode
    \/ SupWriteStatus

SpecBoot == Init /\ [][NextBoot]_vars

\* The classification of list on every kind of evidence: a record left
\* running by an earlier server instance, whose backup may have ended since
\* the reconciler ran, with any marker and any log.
MarkerValues == {"", "0", "1", "-15", "137"}

InitClassify ==
    /\ now = 0
    /\ phase = "serving"
    /\ boots = 0
    /\ sup = <<>>
    /\ lst = IdleList
    /\ kil = IdleKill
    /\ killedOK = {}
    /\ InitAux
    /\ \E h \in Hosts, st \in {"run", "gone"} :
       \E logfile \in {NoLog, LogName(h, 0)}, k \in {JobKey(h, 0), OrphanKey(h)} :
        /\ procs = <<[host |-> h, flags |-> {}, st |-> st, sig |-> FALSE, code |-> 0,
                      child |-> FALSE, ext |-> FALSE, log |-> logfile]>>
        /\ files = (k :> Rec(1, h, "full", 0, "running", logfile))
        /\ logs \in {<<>>} \cup {(LogName(h, 0) :> [err |-> e, notice |-> FALSE]) : e \in BOOLEAN}
    /\ \E D \in SUBSET Hosts : exitc \in [D -> MarkerValues]

NextClassify ==
    \/ ProcExit
    \/ ListStart
    \/ ListRead
    \/ ListProbe
    \/ ListWrite
    \/ ListRespond

SpecClassify == InitClassify /\ [][NextClassify]_vars

\* Kill requests among the records of up to KillLaunches launched jobs: the
\* state after the launches have answered and their supervisors have written
\* the real pids and wait for their children (line 1080).  The launches are
\* in the order of their timestamps; the supervisors then run to their end,
\* next to kill requests and the removal of error logs.
InitKill ==
    /\ now = MaxTime
    /\ phase = "serving"
    /\ boots = 0
    /\ exitc = <<>>
    /\ lst = IdleList
    /\ kil = IdleKill
    /\ killedOK = {}
    /\ InitAux
    /\ \E n \in 1..KillLaunches :
       \E js \in [1..n -> Hosts \X (0..MaxTime)] :
        /\ \A i, j \in 1..n : i < j => (js[i] # js[j] /\ js[i][2] <= js[j][2])
        /\ sup = [i \in 1..n |->
                    [host |-> js[i][1], opts |-> {}, mode |-> Mode({}), ts |-> js[i][2],
                     pc |-> "wait", pid |-> i, code |-> 0, resp |-> TRUE]]
        /\ procs = [i \in 1..n |->
                    [host |-> js[i][1], flags |-> {}, st |-> "run", sig |-> FALSE,
                     code |-> 0, child |-> TRUE, ext |-> FALSE,
                     log |-> LogName(js[i][1], js[i][2])]]
        /\ files = [k \in {JobKey(js[i][1], js[i][2]) : i \in 1..n} |->
                    LET i == CHOOSE x \in 1..n : JobKey(js[x][1], js[x][2]) = k
                    IN  Rec(i, js[i][1], Mode({}), js[i][2], "running",
                            LogName(js[i][1], js[i][2]))]
        /\ logs = [l \in {LogName(js[i][1], js[i][2]) : i \in 1..n} |->
                    [err |-> FALSE, notice |-> FALSE]]

NextKill ==
    \/ ProcExit
    \/ SupWait
    \/ SupOpenCode
    \/ SupWriteCode
    \/ SupWriteStatus
    \/ KillStart
    \/ KillScan
    \/ KillWrite
    \/ KillRespond
    \/ FailuresClear

SpecKill == InitKill /\ [][NextKill]_vars

\* The output of list on a state directory of up to OrderFiles files, left by
\* earlier jobs: each file is malformed, or a record that is completed,
\* failed, killed, or running with its process alive or gone.  The record of
\* a launched job started at the time in its key.
OrderKeys == {JobKey(h, ts) : h \in Hosts, ts \in 0..MaxTime} \cup {OrphanKey(h) : h \in Hosts}
OrderKinds == {"malformed", "completed", "failed", "killed", "alive", "dead"}

InitOrder ==
    /\ now = MaxTime
    /\ phase = "serving"
    /\ boots = 0
    /\ sup = <<>>
    /\ exitc = <<>>
    /\ logs = <<>>
    /\ lst = IdleList
    /\ kil = IdleKill
    /\ killedOK = {}
    /\ InitAux
    /\ \E K \in SUBSET OrderKeys :
        /\ Cardinality(K) <= OrderFiles
        /\ \E kind \in [K -> OrderKinds], st \in [K -> 0..MaxTime] :
            LET ord == SortedDesc(K)
                pidOf(k) == CHOOSE i \in 1..Len(ord) : ord[i] = k
            IN  /\ \A k \in K : k.kind = "job" => st[k] = k.ts
                /\ procs = [i \in 1..Len(ord) |->
                              [host |-> ord[i].host, flags |-> {},
                               st |-> IF kind[ord[i]] = "alive" THEN "run" ELSE "gone",
                               sig |-> FALSE, code |-> 0, child |-> FALSE, ext |-> FALSE,
                               log |-> NoLog]]
                /\ files = [k \in K |->
                              IF kind[k] = "malformed" THEN Malformed
                              ELSE Rec(pidOf(k), k.host, Mode({}), st[k],
                                       IF kind[k] \in {"alive", "dead"} THEN "running"
                                       ELSE kind[k],
                                       NoLog)]

NextOrder ==
    \/ ListStart
    \/ ListRead
    \/ ListProbe
    \/ ListWrite
    \/ ListRespond

SpecOrder == InitOrder /\ [][NextOrder]_vars

\* The requests of SpecRace on a server that is stopped and started again.
NextStart ==
    \/ NextRace
    \/ Restart

SpecStart == Init /\ [][NextStart]_vars

\* Kill requests next to launches whose supervisors are about to spawn the
\* child or to record its pid: the records hold the placeholder or a live pid.
NextPlaceholder ==
    \/ Reconcile
    \/ Launch(KillLaunches)
    \/ SupSpawn
    \/ SupWritePid
    \/ KillStart
    \/ KillScan
    \/ KillWrite
    \/ KillRespond

SpecPlaceholder == Init /\ [][NextPlaceholder]_vars

\* Kill requests on a server that found backups started outside it when it
\* started, and that is stopped and started again.
NextOrphan ==
    \/ ExternalStart
    \/ Reconcile
    \/ Restart
    \/ ProcExit
    \/ KillStart
    \/ KillScan
    \/ KillWrite
    \/ KillRespond

SpecOrphan == Init /\ [][NextOrphan]_vars

\* Restores and the list of restores on a server that is stopped and started
\* again.
NextRestore ==
    \/ Reconcile
    \/ Restart
    \/ RestoreStart
    \/ RestoreWrite
    \/ RSupSpawn
    \/ RChildExit
    \/ RSupWait
    \/ RSupRead
    \/ RSupWrite
    \/ RListStart
    \/ RListRead
    \/ RListProbe
    \/ RListWrite
    \/ RListRespond

SpecRestore == Init /\ [][NextRestore]_vars

\* Restores, and the requests that clear the restores and that delete one
\* restore, on a server that is stopped and started again.
NextRClear ==
    \/ Reconcile
    \/ Restart
    \/ RestoreStart
    \/ RestoreWrite
    \/ RSupSpawn
    \/ RChildExit
    \/ RSupWait
    \/ RSupRead
    \/ RSupWrite
    \/ RClearStart
    \/ RClearRead
    \/ RClearUnlink
    \/ RClearRespond
    \/ RDeleteStart
    \/ RDeleteRead
    \/ RDeleteUnlink
    \/ RDeleteUnlog
    \/ RDeleteRespond

SpecRClear == Init /\ [][NextRClear]_vars

\* One launch against the requests that kill a backup and that clear the
\* finished backup records.
NextPClear ==
    \/ Reconcile
    \/ ProcExit
    \/ Launch(RaceLaunches)
    \/ LaunchRespond
    \/ SupSpawn
    \/ SupSpawnFail
    \/ SupWritePid
    \/ SupWait
    \/ SupOpenCode
    \/ SupWriteCode
    \/ SupWriteStatus
    \/ KillStart
    \/ KillScan
    \/ KillWrite
    \/ KillRespond
    \/ PClearStart
    \/ PClearRead
    \/ PClearRemove
    \/ PClearUnmark
    \/ PClearRespond

SpecPClear == Init /\ [][NextPClear]_vars

\* Requests that delete the finished backup records of one host, among the
\* records of up to KillLaunches launched jobs whose supervisors run to their
\* end.
NextPDelete ==
    \/ ProcExit
    \/ SupWait
    \/ SupOpenCode
    \/ SupWriteCode
    \/ SupWriteStatus
    \/ PDeleteStart
    \/ PDeleteRead
    \/ PDeleteRemove
    \/ PDeleteUnmark
    \/ PDeleteRespond

SpecPDelete == InitKill /\ [][NextPDelete]_vars

\* Requests that delete the backup data of a host, their workers, and the
\* backups that create the directories.
NextDelete ==
    \/ Reconcile
    \/ MakeDir
    \/ DeleteRequest
    \/ DeleteWrite
    \/ DeleteSpawn
    \/ DeleteRm
    \/ DeleteFinish

SpecDelete == Init /\ [][NextDelete]_vars

\* Download requests served by the threads of one server.
NextDownload ==
    \/ Reconcile
    \/ DlRequest
    \/ DlBuild
    \/ DlSend
    \/ DlUnlink

SpecDownload == Init /\ [][NextDownload]_vars

\* Archive and unarchive on configuration files as an operator may have
\* left them: servers.conf with up to ConfLines lines, each a host with or
\* without options or a comment, indented or not, the last with or without
\* its newline; archived.conf, which only the server writes, with up to one
\* line.
ConfFiles(n, nls) ==
    {f \in UNION {[1..m -> [lead : BOOLEAN, nl : BOOLEAN,
                            body : {<<97>>, <<97, 32, 120>>, <<97, 45, 98, 32, 120>>,
                                    <<35, 32, 97>>}]] : m \in 0..n} :
        \A i \in 1..Len(f) : f[i].nl \in (IF i = Len(f) THEN nls ELSE {TRUE})}

InitArchive ==
    /\ now = 0
    /\ phase = "serving"
    /\ boots = 0
    /\ files = <<>>
    /\ exitc = <<>>
    /\ logs = <<>>
    /\ procs = <<>>
    /\ sup = <<>>
    /\ lst = IdleList
    /\ kil = IdleKill
    /\ killedOK = {}
    /\ probe = IdleProbe
    /\ rfiles = <<>>
    /\ rlogs = <<>>
    /\ rsup = <<>>
    /\ rlst = IdleRList
    /\ rclr = IdleRClear
    /\ rdel = IdleRDelete
    /\ pclr = IdlePClear
    /\ pdel = IdlePDelete
    /\ dirs = {}
    /\ dstate = <<>>
    /\ dtask = <<>>
    /\ tmpf = <<>>
    /\ dl = <<>>
    /\ sconf \in ConfFiles(ConfLines, BOOLEAN)
    /\ aconf \in ConfFiles(1, {TRUE})
    /\ cres = [op |-> "", host |-> "", found |-> FALSE, line |-> <<>>]

NextArchive ==
    \/ Archive
    \/ Unarchive

SpecArchive == InitArchive /\ [][NextArchive]_vars

\* ------------------------------------------------- the probe on pid texts
\* The pid field of a state file is text.  A text is numeric with a value, or
\* not numeric ('abc', the empty text).  os.kill takes a pid_t; its width is
\* scaled down from 32 bits to PidBits.
PidBits == 4
MaxPidT == 2^(PidBits - 1) - 1

\* int(pid) (line 194): the value, or ValueError.
IntOf(id) == IF id.num THEN [ok |-> TRUE, n |-> id.val] ELSE [ok |-> FALSE, n |-> 0]

\* The process is one the server may not signal.
Foreign(p) == "foreign" \in DOMAIN procs[p] /\ procs[p].foreign

\* os.kill(n, 0) (line 194): signal 0 performs the error checks only.  0 and
\* -1 address the server's own process group and every process.
os_kill_0(n) ==
    IF n > MaxPidT THEN "OverflowError"
    ELSE IF n \in {0, -1} THEN "ok"
    ELSE IF n \in 1..Len(procs) /\ procs[n].st \in {"run", "zombie"}
         THEN (IF Foreign(n) THEN "PermissionError" ELSE "ok")
    ELSE "ProcessLookupError"

\* is_process_alive on a pid text (lines 192-197): True, False, or the
\* exception that neither OSError nor ValueError covers.
is_process_alive_text(id) ==
    IF ~IntOf(id).ok THEN "False"
    ELSE IF os_kill_0(IntOf(id).n) = "ok" THEN "True"
    ELSE IF os_kill_0(IntOf(id).n) \in {"PermissionError", "ProcessLookupError"} THEN "False"
    ELSE "raise"

\* A caller applies is_process_alive to the pid text of a record.
ProbeIds ==
    {[num |-> FALSE, val |-> 0]}
    \cup {[num |-> TRUE, val |-> v] : v \in (-1..(ProbeProcs + 1)) \cup {MaxPidT + 1}}

ProbeCall ==
    \E id \in ProbeIds :
        /\ probe' = [id |-> id, out |-> is_process_alive_text(id)]
        /\ UNCHANGED <<now, phase, boots, files, exitc, logs, procs, sup, lst, kil, killedOK,
                       rvars, xvars>>

\* Any table of up to ProbeProcs backup processes, each running, ended and
\* not reaped, or gone, and owned by the server's user or by another.
InitProbe ==
    /\ now = 0
    /\ phase = "serving"
    /\ boots = 0
    /\ files = <<>>
    /\ exitc = <<>>
    /\ logs = <<>>
    /\ sup = <<>>
    /\ lst = IdleList
    /\ kil = IdleKill
    /\ killedOK = {}
    /\ InitAux
    /\ \E n \in 0..ProbeProcs :
        procs \in [1..n -> [host : {"a"}, flags : {{}}, st : {"run", "zombie", "gone"},
                            sig : {FALSE}, code : {0}, child : {FALSE}, ext : {TRUE},
                            log : {NoLog}, foreign : BOOLEAN]]

NextProbe ==
    \/ ProbeCall
    \/ ProcExit

SpecProbe == InitProbe /\ [][NextProbe]_vars

\* ================================================================ claims
Running(f, h) == {k \in DOMAIN f : f[k].hostname = h /\ f[k].status = "running"}

\* C1: once the persisted status of a record is completed, failed or killed,
\* no step of any thread gives the record another status.
C1_TerminalOnce ==
    [][\A k \in DOMAIN files :
          (files[k].status \in Terminal /\ k \in DOMAIN files')
              => files'[k].status = files[k].status]_vars

\* C2: a record for which kill has answered 'killed' has the persisted
\* status killed from then on.
C2_KilledStays == \A k \in killedOK : k \in DOMAIN files => files[k].status = "killed"

\* The launch whose answer is sent in this step, if any.
Answered(i) == i \in 1..Len(sup) /\ ~sup[i].resp /\ sup'[i].resp /\ sup'[i].pc # "dead"

\* The list handler reads, in this step, a record that holds the placeholder.
ReadsPlaceholder ==
    /\ lst.pc = "read"
    /\ lst' # lst
    /\ Head(lst.todo) \in DOMAIN files
    /\ files[Head(lst.todo)].status = "running"
    /\ files[Head(lst.todo)].pid = 0

\* The list handler goes on to the next file with one more element, e.
Lists(e) ==
    /\ lst'.pc \in {"read", "respond"}
    /\ Len(lst'.result) = Len(lst.result) + 1
    /\ \E j \in 1..Len(lst'.result) : lst'.result[j] = e

ListLeavesPlaceholder ==
    ReadsPlaceholder =>
        /\ files' = files
        /\ Lists(View(files[Head(lst.todo)], "running"))

\* C3 (as claimed): when launch answers, the record of the attempt is running
\* with processId 0; and list returns a record with processId 0 as running
\* and does not rewrite it.
C3_PlaceholderAtResponse ==
    [][/\ \A i \in 1..Len(sup) :
            Answered(i) =>
                /\ JobKey(sup[i].host, sup[i].ts) \in DOMAIN files
                /\ files[JobKey(sup[i].host, sup[i].ts)].status = "running"
                /\ files[JobKey(sup[i].host, sup[i].ts)].pid = 0
       /\ ListLeavesPlaceholder]_vars

\* C3 (amended): launch writes exactly one record, running with processId 0,
\* the subject and the mode of the request, under the key of the attempt
\* before its supervisor has taken a step and before it answers; a record
\* exists under that key when it answers; list returns a record with
\* processId 0 as running, does not rewrite it and never probes or writes on
\* behalf of a record it read with processId 0.
C3_PlaceholderWritten ==
    [][/\ Len(sup') = Len(sup) + 1 =>
            LET s == sup'[Len(sup')]
                key == JobKey(s.host, s.ts)
            IN /\ s.pc = "spawn" /\ ~s.resp
               /\ files'[key] = Rec(0, s.host, s.mode, now, "running", LogName(s.host, now))
               /\ DOMAIN files' = DOMAIN files \cup {key}
               /\ \A k \in DOMAIN files \ {key} : files'[k] = files[k]
       /\ \A i \in 1..Len(sup) :
            Answered(i) => JobKey(sup[i].host, sup[i].ts) \in DOMAIN files
       /\ ListLeavesPlaceholder
       /\ lst'.pc \in {"probe", "write"} => lst'.content.pid # 0]_vars

\* C3 witness: the supervisor of a launch has not started the child, and a
\* list is about to return the record with processId 0 as running.
C3_Witness ==
    /\ lst.pc = "respond"
    /\ \E i \in 1..Len(sup), j \in 1..Len(lst.result) :
        /\ sup[i].pc = "spawn"
        /\ lst.result[j].hostname = sup[i].host
        /\ lst.result[j].pid = 0
        /\ lst.result[j].status = "running"
        /\ files[JobKey(sup[i].host, sup[i].ts)].pid = 0

\* C4: a list step that reads a record whose persisted status is completed,
\* failed or killed changes no file, goes on to the next file without probe
\* or write, and returns the record with the status it read.
C4_ListIdempotent ==
    [][(/\ lst.pc = "read"
        /\ lst' # lst
        /\ Head(lst.todo) \in DOMAIN files
        /\ files[Head(lst.todo)].status \in Terminal)
       => /\ files' = files
          /\ Lists(View(files[Head(lst.todo)], files[Head(lst.todo)].status))]_vars

\* C4 witness: a list is about to return a record as killed, a status list
\* itself never assigns, while the process of the record is gone.
C4_Witness ==
    /\ lst.pc = "respond"
    /\ \E j \in 1..Len(lst.result) :
        /\ lst.result[j].status = "killed"
        /\ ~is_process_alive(lst.result[j].pid)

\* C5: the status list assigns to a running record with processId > 0 and a
\* dead process: failed if the marker of the subject exists, is not empty
\* and is not "0"; otherwise failed if the log of the record exists and has
\* the [ERROR] marker; otherwise completed.  That status is what it writes.
C5_Priority ==
    [][/\ (lst.pc = "probe" /\ lst'.pc = "write") =>
            LET h == lst.content.hostname
                l == lst.content.logfile
            IN lst'.status =
                 IF h \in DOMAIN exitc /\ exitc[h] \notin {"", "0"} THEN "failed"
                 ELSE IF l \in DOMAIN logs /\ logs[l].err THEN "failed"
                 ELSE "completed"
       /\ (lst.pc = "write" /\ lst' # lst) =>
            /\ lst.status \in {"completed", "failed"}
            /\ files'[Head(lst.todo)].status = lst.status]_vars

\* C5 witness: list has found the process dead and decided failed on a marker
\* that is not "0" while the log has no [ERROR] marker.
C5_Witness ==
    /\ lst.pc = "write"
    /\ lst.status = "failed"
    /\ lst.content.hostname \in DOMAIN exitc
    /\ exitc[lst.content.hostname] \notin {"", "0"}
    /\ lst.content.logfile \in DOMAIN logs
    /\ ~logs[lst.content.logfile].err

\* C6: a step of kill(S) taken while no record of subject S is running
\* changes no record, no marker and no log, signals no process and does not
\* lead to the answer 'killed'.
C6_KillNotFound ==
    [][(/\ kil.pc = "scan"
        /\ kil' # kil
        /\ Running(files, kil.host) = {})
       => /\ UNCHANGED <<files, exitc, logs, procs>>
          /\ kil'.pc # "write"]_vars

\* This step is the run of the reconciler.
Reconciles == phase = "boot" /\ phase' = "serving"

\* C7: after the reconciler has run, every record that was running with a
\* processId that is 0 or not alive is the same record with status failed,
\* and the marker of its subject exists, holding 137 if there was none.
C7_DeadMarkedFailed ==
    [][Reconciles =>
        \A k \in DOMAIN files :
            (files[k].status = "running" /\ ~is_process_alive(files[k].pid))
            => /\ files'[k] = [files[k] EXCEPT !.status = "failed"]
               /\ files[k].hostname \in DOMAIN exitc'
               /\ files[k].hostname \notin DOMAIN exitc => exitc'[files[k].hostname] = "137"]_vars

\* C8: when live timemachine.sh --trigger processes of subject S exist and
\* no record of S is running, the reconciler leaves exactly one running
\* record of S; its processId is that of one of those processes and its mode
\* is files-only, db-only or full by the flags of that very process.
C8_OneOrphanRecord ==
    [][Reconciles =>
        \A h \in Hosts :
            (PsLines(h) # {} /\ Running(files, h) = {})
            => /\ Cardinality(Running(files', h)) = 1
               /\ \A k \in DOMAIN files' \ DOMAIN files :
                    files'[k].hostname = h => k \in Running(files', h)
               /\ \A k \in Running(files', h) :
                    /\ files'[k].pid \in PsLines(h)
                    /\ files'[k].mode =
                         IF "--files-only" \in procs[files'[k].pid].flags THEN "files-only"
                         ELSE IF "--db-only" \in procs[files'[k].pid].flags THEN "db-only"
                         ELSE "full"]_vars

\* C8 witness: the reconciler has registered one record for a subject of
\* which two processes run, and the record says db-only.
C8_Witness ==
    /\ phase = "serving"
    /\ \E h \in Hosts :
        /\ Cardinality(PsLines(h)) >= 2
        /\ Cardinality(Running(files, h)) = 1
        /\ OrphanKey(h) \in Running(files, h)
        /\ files[OrphanKey(h)].mode = "db-only"

\* C9: when a running record of subject S with a live process exists, the
\* reconciler adds no record of S and makes no record of S running.
C9_NoDuplicateOrphan ==
    [][Reconciles =>
        \A h \in Hosts :
            (\E k \in Running(files, h) : is_process_alive(files[k].pid))
            => /\ \A k \in DOMAIN files' \ DOMAIN files : files'[k].hostname # h
               /\ Running(files', h) \subseteq Running(files, h)]_vars

\* C10: when the launches so far are for pairwise distinct subjects, there is
\* exactly one record per launch, under the key of its attempt, and it
\* carries the subject and the mode of that launch.
C10_OneRecordPerLaunch ==
    (\A i, j \in 1..Len(sup) : i # j => sup[i].host # sup[j].host)
    => /\ Cardinality(DOMAIN files) = Len(sup)
       /\ \A i \in 1..Len(sup) :
            /\ JobKey(sup[i].host, sup[i].ts) \in DOMAIN files
            /\ files[JobKey(sup[i].host, sup[i].ts)].hostname = sup[i].host
            /\ files[JobKey(sup[i].host, sup[i].ts)].mode = sup[i].mode

\* C10 witness: two launches in the same second for two subjects, with
\* different modes, and both supervisors have finished.
C10_Witness ==
    /\ Len(sup) = 2
    /\ sup[1].host # sup[2].host
    /\ sup[1].ts = sup[2].ts
    /\ sup[1].mode # sup[2].mode
    /\ sup[1].pc = "done" /\ sup[2].pc = "done"
    /\ Cardinality(DOMAIN files) = 2

\* C11: any two launches that responded 'started' have distinct storage
\* keys, and the number of backup records equals the number of launches (no
\* launch overwrites the record of an earlier attempt).
C11_OwnRecordPerLaunch ==
    /\ \A i, j \in 1..Len(sup) :
         (i # j /\ sup[i].resp /\ sup[j].resp)
         => JobKey(sup[i].host, sup[i].ts) # JobKey(sup[j].host, sup[j].ts)
    /\ Cardinality(DOMAIN files) = Len(sup)

\* C12: a launch whose child could not be started (the log file could not be
\* opened or the spawn raised) has not answered 'started' and has left no
\* record with status running for its attempt.
C12_SpawnFailureReported ==
    \A i \in 1..Len(sup) :
        sup[i].pc = "crashed"
        => /\ ~sup[i].resp
           /\ \A k \in DOMAIN files :
                k = JobKey(sup[i].host, sup[i].ts) => files[k].status # "running"

\* C13: whenever an operation performs its write of a terminal status to a
\* record (the write-back of list, the write-back of kill, the on-exit write
\* of the supervisor), the record on disk still has status running: no other
\* operation has taken the record out of running since this one read it.
C13_SingleTransition ==
    [][/\ (lst.pc = "write" /\ lst'.pc # "write")
            => files[Head(lst.todo)].status = "running"
       /\ (kil.pc = "write" /\ kil'.pc = "respond")
            => files[kil.key].status = "running"
       /\ \A i \in 1..Len(sup) :
            (sup[i].pc = "writestatus" /\ sup'[i].pc = "done")
            => files[JobKey(sup[i].host, sup[i].ts)].status = "running"]_vars

\* C14 (as stated): whenever the terminal status written by a supervisor is
\* visible in its record, the marker of the subject holds an exit code.
C14_MarkerHeldWhileVisible ==
    \A i \in 1..Len(sup) :
        (/\ sup[i].pc = "done"
         /\ files[JobKey(sup[i].host, sup[i].ts)].pid = sup[i].pid
         /\ files[JobKey(sup[i].host, sup[i].ts)].status \in {"completed", "failed"})
        => /\ sup[i].host \in DOMAIN exitc
           /\ exitc[sup[i].host] \in {"0", "1", "-15"}

\* C14 (amended): the supervisor takes the exit code from the child it
\* reaps, then writes that code into the marker of the subject, and only in a
\* later step of its own writes the terminal status to its record, together
\* with the real pid; the status is completed if and only if the code is 0
\* and failed otherwise.
C14_MarkerThenStatus ==
    [][\A i \in 1..Len(sup) :
          /\ (sup[i].pc = "wait" /\ sup'[i].pc \notin {"wait", "dead"})
                => /\ sup'[i].pc = "opencode"
                   /\ sup'[i].code = procs[sup[i].pid].code
                   /\ files' = files /\ exitc' = exitc
          /\ (sup[i].pc = "writecode" /\ sup'[i].pc \notin {"writecode", "dead"})
                => /\ sup'[i].pc = "writestatus"
                   /\ exitc'[sup[i].host] = Str(sup[i].code)
                   /\ files' = files
          /\ (sup[i].pc # "done" /\ sup'[i].pc = "done")
                => /\ sup[i].pc = "writestatus"
                   /\ exitc' = exitc
                   /\ files'[JobKey(sup[i].host, sup[i].ts)].pid = sup[i].pid
                   /\ files'[JobKey(sup[i].host, sup[i].ts)].status
                        = (IF sup[i].code = 0 THEN "completed" ELSE "failed")]_vars

\* C14 witness: two supervisors have finished, one with exit code 0 and the
\* record completed, one with a non-zero code and the record failed, and the
\* marker of the failed one's subject holds the non-zero code.
C14_Witness ==
    \E i, j \in 1..Len(sup) :
        /\ sup[i].pc = "done" /\ sup[j].pc = "done"
        /\ JobKey(sup[i].host, sup[i].ts) # JobKey(sup[j].host, sup[j].ts)
        /\ files[JobKey(sup[i].host, sup[i].ts)].status = "completed"
        /\ files[JobKey(sup[j].host, sup[j].ts)].status = "failed"
        /\ procs[sup[i].pid].st = "gone" /\ procs[sup[j].pid].st = "gone"
        /\ sup[j].host \in DOMAIN exitc /\ exitc[sup[j].host] = "1"

\* The steps of the kill handler: the one that signals a process, the one
\* that writes the record back, and any other.
KillSignals == kil.pc = "scan" /\ kil'.pc = "write"
KillWrites == kil.pc = "write" /\ kil'.pc = "respond"
KillOther == kil' # kil /\ ~KillSignals /\ ~KillWrites

C16_KillOwnSubject ==
    [][/\ KillSignals
            => /\ kil'.content.hostname = kil.host
               /\ \A p \in 1..Len(procs) :
                    procs[p].host # kil.host => procs'[p] = procs[p]
       /\ KillWrites
            => \A k \in DOMAIN files :
                    files[k].hostname # kil.host => files'[k] = files[k]]_vars

\* C17: a list call that finds the process of a running record with
\* processId > 0 not alive goes on to write a terminal status (completed or
\* failed) to that record and returns the record with the status it wrote;
\* for a record it does not rewrite, it returns the status it read and
\* leaves the file as it is.
C17_ListReturnsWhatItPersists ==
    [][/\ (lst.pc = "probe" /\ lst' # lst /\ ~is_process_alive(lst.content.pid))
            => /\ lst'.pc = "write"
               /\ lst'.status \in {"completed", "failed"}
               /\ lst'.todo = lst.todo /\ lst'.content = lst.content
               /\ lst'.result = lst.result
       /\ (lst.pc = "write" /\ lst' # lst)
            => /\ lst.status \in {"completed", "failed"}
               /\ files' = (Head(lst.todo) :> [lst.content EXCEPT !.status = lst.status])
                           @@ files
               /\ Lists([lst.content EXCEPT !.status = lst.status])
       /\ (lst.pc = "probe" /\ lst' # lst /\ is_process_alive(lst.content.pid))
            => /\ Lists([lst.content EXCEPT !.status = "running"])
               /\ files' = files
       /\ (lst.pc = "read" /\ lst' # lst /\ Len(lst'.result) # Len(lst.result))
            => /\ Lists(files[Head(lst.todo)])
               /\ files' = files
       /\ (lst' # lst /\ lst.pc # "write") => files' = files]_vars

\* C17 witness: list has returned a record as completed or failed and the
\* record on disk has that status, while the supervisor of the job, which
\* has reaped the child, has not written its own status yet.
C17_Witness ==
    \E i \in 1..Len(sup), j \in 1..Len(lst.result) :
        /\ lst.pc = "respond"
        /\ sup[i].pc \in {"opencode", "writecode", "writestatus"}
        /\ lst.result[j].pid = sup[i].pid
        /\ lst.result[j].status \in {"completed", "failed"}
        /\ files[JobKey(sup[i].host, sup[i].ts)].status = lst.result[j].status
        /\ files[JobKey(sup[i].host, sup[i].ts)].pid = sup[i].pid

\* C18: in the list that list returns, every record with status running
\* comes before every record with another status, and the records with
\* another status are in non-increasing order of startedAt.
C18_ListOrder ==
    lst.pc = "respond"
    => \A i, j \in 1..Len(lst.result) :
         i < j => /\ lst.result[j].status = "running" => lst.result[i].status = "running"
                  /\ (lst.result[i].status # "running" /\ lst.result[j].status # "running")
                        => lst.result[i].started >= lst.result[j].started

\* C18 witness: the list returned has a running record first, then two
\* finished records, the later started before the earlier started.
C18_Witness ==
    /\ lst.pc = "respond"
    /\ Len(lst.result) = 3
    /\ lst.result[1].status = "running"
    /\ lst.result[2].status \in Terminal /\ lst.result[3].status \in Terminal
    /\ lst.result[2].started > lst.result[3].started

\* C20: a list step that reads a malformed file leaves every file as it is,
\* adds nothing to the result and goes on to the next file or to the answer;
\* and the list that is returned has exactly one element for each
\* well-formed file, equal to the record in that file.
C20_MalformedSkipped ==
    [][/\ (/\ lst.pc = "read" /\ lst' # lst
           /\ Head(lst.todo) \in DOMAIN files
           /\ files[Head(lst.todo)] = Malformed)
            => /\ files' = files
               /\ Len(lst'.result) = Len(lst.result)
               /\ lst'.pc \in {"read", "respond"}
               /\ lst'.pc = "read" => lst'.result = lst.result
       /\ (lst.pc # "respond" /\ lst'.pc = "respond")
            => /\ Len(lst'.result) = Cardinality({k \in DOMAIN files' : files'[k] # Malformed})
               /\ \A k \in DOMAIN files' :
                    IF files'[k] = Malformed
                    THEN files[k] = Malformed
                    ELSE \E j \in 1..Len(lst'.result) : lst'.result[j] = files'[k]]_vars

\* C20 witness: list answers with two records while the directory holds
\* those two well-formed files and a malformed one, which comes first in the
\* order the files are read.
C20_Witness ==
    /\ lst.pc = "respond"
    /\ Len(lst.result) = 2
    /\ Cardinality(DOMAIN files) = 3
    /\ \E k \in DOMAIN files :
        /\ files[k] = Malformed
        /\ Head(SortedDesc(DOMAIN files)) = k

\* C19: every start of the server is followed by exactly one run of the
\* reconciler before the server serves; while the reconciler runs, no list,
\* kill or launch is in progress and no supervisor thread of this server
\* exists; and every other write of a record or a marker is made while the
\* server serves, hence after the reconciler has completed.
C19_ReconcileBeforeRequests ==
    [][/\ Reconciles
            => /\ lst.pc = "idle" /\ kil.pc = "idle"
               /\ \A i \in 1..Len(sup) : sup[i].pc = "dead"
               /\ UNCHANGED <<lst, kil, sup>>
       /\ (phase = "boot" /\ ~Reconciles)
            => UNCHANGED <<phase, files, exitc, sup, lst, kil>>
       /\ phase' = "boot" => (phase = "boot" \/ boots' = boots + 1)
       /\ boots' # boots => (phase = "serving" /\ phase' = "boot")
       /\ ((files' # files \/ exitc' # exitc) /\ ~Reconciles)
            => (phase = "serving" /\ phase' = "serving")]_vars

\* C19 witness: the server has been started a second time and its
\* reconciler has run while the backup launched by the first instance was
\* still running; its supervisor is gone, and a list request is now being
\* handled.
C19_Witness ==
    /\ boots = 1 /\ phase = "serving"
    /\ lst.pc = "read"
    /\ \E i \in 1..Len(sup) :
        /\ sup[i].pc = "dead" /\ sup[i].pid # 0
        /\ procs[sup[i].pid].st = "run"
        /\ OrphanKey(sup[i].host) \in DOMAIN files

\* The launch handler writes its placeholder in this step.
Launches == Len(sup') = Len(sup) + 1

\* C21: a launch step adds one record with status running under a new key
\* and leaves every record that existed before as it was, whether or not
\* running records of the subject exist.
C21_LaunchAddsRecord ==
    [][Launches
        => /\ \A k \in DOMAIN files : k \in DOMAIN files' /\ files'[k] = files[k]
           /\ Cardinality(DOMAIN files') = Cardinality(DOMAIN files) + 1
           /\ \A k \in DOMAIN files' \ DOMAIN files :
                /\ files'[k].status = "running"
                /\ files'[k].hostname = sup'[Len(sup')].host]_vars

\* C22: a call of is_process_alive changes no process and no record, and
\* returns false for a non-numeric identifier, for the identifier of a
\* process that does not exist and for a process the server may not signal;
\* it returns true only when a process with that identifier exists and may
\* be signalled (or the identifier addresses a process group).
C22_ProbeFalseOnError ==
    [][probe' # probe
        => /\ UNCHANGED <<files, exitc, logs, procs, sup>>
           /\ probe'.out \in {"True", "False"}
           /\ ~probe'.id.num => probe'.out = "False"
           /\ (probe'.id.num /\ probe'.id.val > 0
               /\ ~(probe'.id.val \in 1..Len(procs)
                    /\ procs[probe'.id.val].st \in {"run", "zombie"}))
                => probe'.out = "False"
           /\ (probe'.id.num /\ probe'.id.val \in 1..Len(procs)
               /\ procs[probe'.id.val].foreign)
                => probe'.out = "False"
           /\ (probe'.out = "True" /\ probe'.id.val > 0)
                => /\ probe'.id.val \in 1..Len(procs)
                   /\ procs[probe'.id.val].st \in {"run", "zombie"}
                   /\ ~procs[probe'.id.val].foreign]_vars

\* C23: once the supervisor of a launched job has completed its on-exit
\* writes, a record for which kill had answered 'killed' has the persisted
\* status killed.
C23_SupervisorKeepsKilled ==
    \A i \in 1..Len(sup) :
        (sup[i].pc = "done" /\ JobKey(sup[i].host, sup[i].ts) \in killedOK)
        => files[JobKey(sup[i].host, sup[i].ts)].status = "killed"

\* C24: no step writes to a record that holds the placeholder processId 0
\* except the supervisor of that attempt, and no step takes the processId of
\* a record from a real id back to 0.
C24_PidNeverReverts ==
    [][\A k \in DOMAIN files :
          /\ k \in DOMAIN files'
          /\ files[k].pid # 0 => files'[k].pid # 0
          /\ (files[k].pid = 0 /\ files[k].status = "running" /\ files'[k] # files[k])
                => \E i \in 1..Len(sup) :
                     /\ sup[i].pc = "writepid" /\ sup'[i].pc = "wait"
                     /\ k = JobKey(sup[i].host, sup[i].ts)
                     /\ files'[k].pid = sup[i].pid]_vars

\* C25: kill signals only a processId > 0; no step of kill changes a record
\* that holds the placeholder processId 0; and while a running record of
\* subject S holds the placeholder, kill(S) signals a process only if another
\* running record of S with a live processId > 0 exists (otherwise it goes on
\* to answer not-found).
C25_KillSkipsPlaceholder ==
    [][/\ KillSignals => kil'.content.pid > 0
       /\ kil' # kil
            => \A k \in DOMAIN files :
                 files[k].pid = 0 => (k \in DOMAIN files' /\ files'[k] = files[k])
       /\ (KillSignals /\ \E k \in Running(files, kil.host) : files[k].pid = 0)
            => \E k \in Running(files, kil.host) :
                 files[k].pid > 0 /\ is_process_alive(files[k].pid)]_vars

\* C26: kill(S) does not conclude not-found while a running record that the
\* reconciler made for subject S exists and its process is alive.
C26_OrphanReachable ==
    [][(kil.pc = "scan" /\ kil'.pc = "respond" /\ kil'.result = "404")
        => ~\E k \in DOMAIN files :
              /\ k = OrphanKey(kil.host)
              /\ files[k].hostname = kil.host /\ files[k].status = "running"
              /\ files[k].pid > 0 /\ is_process_alive(files[k].pid)]_vars

\* C27: after a run of the reconciler that has marked a dead running record
\* of subject S as failed, the marker of S exists and holds a non-zero exit
\* code.
C27_MarkerNonZero ==
    [][Reconciles =>
        \A k \in DOMAIN files :
            (/\ files[k].status = "running" /\ ~is_process_alive(files[k].pid)
             /\ files'[k].status = "failed")
            => /\ files[k].hostname \in DOMAIN exitc'
               /\ exitc'[files[k].hostname] \notin {"", "0"}]_vars

\* C29: once the child of a restore has exited, its supervisor thread has
\* finished and the request thread has written the initial record, the
\* restore record is completed if the exit code was 0 and failed otherwise
\* (for a restore whose key no other restore shares, on the server that
\* started it).
C29_RestoreTerminal ==
    \A i \in 1..Len(rsup) :
        (/\ rsup[i].child = "exited" /\ rsup[i].pc = "done" /\ rsup[i].req = "done"
         /\ rsup[i].server = boots
         /\ \A j \in 1..Len(rsup) :
              j # i => RestoreKey(rsup[j].host, rsup[j].ts) # RestoreKey(rsup[i].host, rsup[i].ts))
        => /\ RestoreKey(rsup[i].host, rsup[i].ts) \in DOMAIN rfiles
           /\ rfiles[RestoreKey(rsup[i].host, rsup[i].ts)].status
                = (IF rsup[i].code = 0 THEN "completed" ELSE "failed")

\* A step of the handler of the list of restores.
RListSteps == rlst' # rlst /\ boots' = boots

C28_ReconcilerFrame ==
    [][Reconciles =>
        /\ \A k \in DOMAIN files :
             /\ k \in DOMAIN files'
             /\ (\/ files[k].status \in Terminal
                 \/ files[k] = Malformed
                 \/ (/\ files[k].status = "running" /\ files[k].pid > 0
                     /\ is_process_alive(files[k].pid)))
                => files'[k] = files[k]
        /\ rfiles' = rfiles
        /\ \A h \in DOMAIN exitc : h \in DOMAIN exitc' /\ exitc'[h] = exitc[h]]_vars

RClearSteps == rclr' # rclr /\ boots' = boots

RDeleteSteps == rdel' # rdel /\ boots' = boots

\* C31: no step of clearing all restores or of deleting one restore removes
\* or changes a restore record that is running with its recorded process
\* alive, or removes its log; a delete that reads such a record answers 409.
C31_BusyRestoreKept ==
    [][/\ (RClearSteps \/ RDeleteSteps)
            => \A k \in DOMAIN rfiles :
                 RBusy(rfiles[k])
                    => /\ k \in DOMAIN rfiles' /\ rfiles'[k] = rfiles[k]
                       /\ rfiles[k].logfile \in DOMAIN rlogs
                            => rfiles[k].logfile \in DOMAIN rlogs'
       /\ (/\ rdel.pc = "read" /\ RDeleteSteps
           /\ rdel.key \in DOMAIN rfiles /\ RBusy(rfiles[rdel.key]))
            => rdel'.result = "409" /\ rfiles' = rfiles /\ rlogs' = rlogs]_vars

PClearSteps == pclr' # pclr /\ boots' = boots

\* C32: a step of clearing all processes removes only records whose
\* persisted status is completed or failed, counts each record it removes,
\* and every record with status running or killed still exists unchanged
\* after it.
C32_ClearFinishedOnly ==
    [][PClearSteps =>
        /\ \A k \in DOMAIN files :
             files[k].status \in {"running", "killed"}
                => k \in DOMAIN files' /\ files'[k] = files[k]
        /\ \A k \in DOMAIN files \ DOMAIN files' :
             /\ files[k].status \in {"completed", "failed"}
             /\ pclr'.pc = "unmark"
        /\ pclr.pc = "unmark" => pclr'.count = pclr.count + 1]_vars

PDeleteSteps == pdel' # pdel /\ boots' = boots

\* C33: a step of deleting the finished processes of host S removes only
\* records whose subject field is S.
C33_DeleteOwnSubject ==
    [][PDeleteSteps =>
        \A k \in DOMAIN files \ DOMAIN files' : files[k].hostname = pdel.host]_vars

\* C34: a request to delete the finished processes of host S that has found
\* no completed or failed record, and so answers 404, changes no record and
\* leaves the marker of S as it is.
C34_NotFoundChangesNothing ==
    [][(PDeleteSteps /\ pdel'.result = "404") => (files' = files /\ exitc' = exitc)]_vars

DeleteOpen(h) == \E i \in 1..Len(dtask) : dtask[i].host = h /\ dtask[i].pc # "done"

DeleteDone(h) == \E i \in 1..Len(dtask) : dtask[i].host = h /\ dtask[i].isdir

C36_OwnArchive ==
    [][\A i \in 1..Len(dl) :
        /\ (dl[i].pc = "send" /\ dl'[i].pc = "unlink")
             => (dl'[i].code = 200 /\ dl'[i].sent = {dl[i].path})
        /\ (dl[i].pc = "send" /\ dl'[i] = dl[i] /\ dl[i].fmt \in DOMAIN tmpf)
             => (dl[i].fmt \in DOMAIN tmpf' /\ tmpf'[dl[i].fmt] = tmpf[dl[i].fmt])]_vars

\* The texts of the lines of host g in a file, in their order.
HostLines(file, g) ==
    LET Is(line) == ConfMatch(line, g)
        sel == SelectSeq(file, Is)
    IN  [i \in 1..Len(sel) |-> sel[i].body]

ConfSteps == cres' # cres \/ sconf' # sconf \/ aconf' # aconf

\* C37: unarchiving a host right after archiving it from servers.conf leaves
\* its line, host name and options, in servers.conf and no line of it in
\* archived.conf; archive and unarchive leave the lines of every other host
\* in both files as they are; and a call that does not find the host changes
\* neither file.
C37_ArchiveRoundTrip ==
    [][ConfSteps =>
        /\ ~cres'.found => (sconf' = sconf /\ aconf' = aconf)
        /\ \A g \in Hosts \ {cres'.host} :
             /\ HostLines(sconf', g) = HostLines(sconf, g)
             /\ HostLines(aconf', g) = HostLines(aconf, g)
        /\ (/\ cres.op = "archive" /\ cres.found
            /\ cres'.op = "unarchive" /\ cres'.host = cres.host)
             => /\ cres'.found
                /\ \E i \in 1..Len(sconf') :
                     ConfMatch(sconf'[i], cres.host) /\ sconf'[i].body = cres.line
                /\ HostLines(aconf', cres.host) = <<>>]_vars
====
